---- MODULE Spec2Model ----
(***************************************************************************)
(* Task-based evaluation engine of PLUMED: MultiValue (the per-task        *)
(* scratch record), MatrixProductBase and OuterProduct (matrix rows).      *)
(*                                                                         *)
(* A MultiValue is modelled as a record; every method of MultiValue.h is   *)
(* an operator that maps a record to the record after the call, so that a  *)
(* handler that makes several calls is one action.  Vectors are functions  *)
(* on 0..size-1, exactly as the code indexes them.  Doubles are integers.  *)
(***************************************************************************)
EXTENDS Integers, Sequences, FiniteSets, TLC

\* ---- bounds of the model ----
NVals == 2          \* values held by the MultiValue of the API specification
NDer == 2           \* derivatives per value in the API specification
MaxDer == 2         \* largest derivative sum / value the API actions build
MaxCalls == 3       \* calls made on one MultiValue in the API specification

MaxDim == 2         \* largest extent of a vector or matrix argument
MaxForce == 1       \* largest force deposited on an output element
MaxDeposits == 2    \* most elements of a transposed matrix that receive a force
NThreads == 2       \* threads that share the row tasks of runAllTasks
MaxSteps == 3       \* calls the driver makes on one component
MaxStride == 2      \* largest STRIDE of an averaging component
MaxClear == 3       \* largest CLEAR of an averaging component
MaxTime == 5        \* last step of the run of an averaging component
MaxSample == 2      \* largest value of the averaged argument
MaxFreq == 3        \* largest NL_STRIDE of a volume
NTasks == 2         \* tasks of the base multicolvar of a volume
MaxBlocks == 2      \* atoms per task (blocks) of a multicolvar
MaxSerial == 2      \* atom serials 1..MaxSerial in the ATOMSi lists of a multicolvar

VARIABLES myvals,   \* the MultiValue (TaskContext) under study
          op,       \* the last call made: [name, v, j, d]
          ncalls,   \* number of calls made so far
          args,     \* the Values passed with ARG to the component
          ctor,     \* the MatrixProductBase object under construction
          act,      \* the matrix component whose tasks are run
          pc,       \* position of the task loop: idle, loop, rowdone, fault, alldone
          current,  \* the row task being run
          li,       \* loop variable i of the element loop
          out,      \* the output matrix Value, out[row][col]
          evals,    \* evals[col]: element tasks of the current row that computed col
          last,     \* the last element task: its arguments and what it returned
          jac,      \* jac[col]: the active indices and derivatives stored with out[col]
          frc,      \* forces: those deposited on out, forcesToApply, those applied
          tm,       \* a TransposeMatrix component, its output forces and its argument's
          sch,      \* a MatrixProductBase as the driver calls calculate/update/runFinalJobs
          avg,      \* an AVERAGE component, its output value and the samples it was given
          vol,      \* an ActionVolume, its base multicolvar and the step
          par       \* runAllTasks with several threads: their MultiValues and the merged rows

mvVars == <<myvals, op, ncalls>>
ctorVars == <<args, ctor>>
rowVars == <<act, pc, current, li, out, evals, last, jac, frc>>
otherVars == <<tm, par, sch, avg, vol>>

\* ---------------------------------------------------------------------
\* MultiValue
\* ---------------------------------------------------------------------

\* MultiValue::MultiValue followed by resize(nvals,nder): every buffer is
\* allocated and zero, every count is zero.
resize(nvals, nder) ==
  [ values        |-> [i \in 0..nvals-1 |-> 0],
    nderivatives  |-> nder,
    derivatives   |-> [k \in 0..nvals*nder-1 |-> 0],
    hasderiv      |-> [k \in 0..nvals*nder-1 |-> FALSE],
    nactive       |-> [i \in 0..nvals-1 |-> 0],
    active_list   |-> [k \in 0..nvals*nder-1 |-> 0],
    atLeastOneSet |-> FALSE,
    task_index    |-> 0,
    task2_index   |-> 0,
    nindices      |-> 0,
    nsplit        |-> 0,
    indices       |-> <<>>,
    matrix_row_nderivatives       |-> 0,
    matrix_row_derivative_indices |-> [k \in 0..nder-1 |-> 0],
    nmatrix_indices |-> 0,
    matrix_indices  |-> [k \in 0..nder-1 |-> 0],
    inMatrixRerun   |-> FALSE,
    vector_call     |-> FALSE,
    matrix_force_stash_size |-> 0,
    fault           |-> FALSE ]

\* An access outside the buffers (plumed_dbg_assert in a debug build,
\* undefined behaviour otherwise): the task does not complete; the record
\* is only marked, nothing is claimed about its contents afterwards.
Fault(mv) == [mv EXCEPT !.fault = TRUE]

getNumberOfValues(mv) == DOMAIN mv.values

get(mv, ival) == mv.values[ival]

setValue(mv, ival, val) == [mv EXCEPT !.values[ival] = val]

addValue(mv, ival, val) == [mv EXCEPT !.values[ival] = @ + val]

\* addDerivative that also registers jder in the active list
addDerivative_registers(mv, ival, jder, der) ==
  [mv EXCEPT !.atLeastOneSet = TRUE,
             !.hasderiv[mv.nderivatives*ival + jder] = TRUE,
             !.derivatives[mv.nderivatives*ival + jder] = @ + der,
             !.active_list[mv.nderivatives*ival + mv.nactive[ival]] = jder,
             !.nactive[ival] = @ + 1]

addDerivative(mv, ival, jder, der) ==
  IF ~(ival \in DOMAIN mv.values /\ jder < mv.nderivatives) THEN Fault(mv) ELSE
  [mv EXCEPT !.atLeastOneSet = TRUE,
             !.hasderiv[mv.nderivatives*ival + jder] = TRUE,
             !.derivatives[mv.nderivatives*ival + jder] = @ + der]

setDerivative(mv, ival, jder, der) ==
  IF ~(ival \in DOMAIN mv.values /\ jder < mv.nderivatives) THEN Fault(mv) ELSE
  [mv EXCEPT !.atLeastOneSet = TRUE,
             !.hasderiv[mv.nderivatives*ival + jder] = TRUE,
             !.derivatives[mv.nderivatives*ival + jder] = der]

getDerivative(mv, ival, jder) == mv.derivatives[mv.nderivatives*ival + jder]

\* updateIndex without the test of the has-derivative flag
updateIndex_noflag(mv, ival, jder) ==
  [mv EXCEPT !.active_list[mv.nderivatives*ival + mv.nactive[ival]] = jder,
             !.nactive[ival] = @ + 1]

\* The loop under "#ifdef DNDEBUG" is never compiled (the macro is NDEBUG),
\* so the only test is the has-derivative flag.
updateIndex(mv, ival, jder) ==
  IF ~(ival \in DOMAIN mv.values /\ jder < mv.nderivatives) THEN Fault(mv)
  ELSE IF mv.hasderiv[mv.nderivatives*ival + jder]
  THEN IF ~(mv.nactive[ival] < mv.nderivatives) THEN Fault(mv) ELSE
       [mv EXCEPT !.active_list[mv.nderivatives*ival + mv.nactive[ival]] = jder,
                  !.nactive[ival] = @ + 1]
  ELSE mv

getNumberActive(mv, ival) == mv.nactive[ival]

getActiveIndex(mv, ival, ind) == mv.active_list[mv.nderivatives*ival + ind]

\* clearActiveMembers that forgets to reset the count
clearActiveMembers_keeps(mv, ival) == mv

clearActiveMembers(mv, ival) == [mv EXCEPT !.nactive[ival] = 0]

setSplitIndex(mv, nat) == [mv EXCEPT !.nsplit = nat]

getSplitIndex(mv) == mv.nsplit

setNumberOfIndices(mv, nat) == [mv EXCEPT !.nindices = nat]

getNumberOfIndices(mv) == mv.nindices

setTaskIndex(mv, tindex) == [mv EXCEPT !.task_index = tindex]

setSecondTaskIndex(mv, tindex) == [mv EXCEPT !.task2_index = tindex]

getIndices(mv) == mv.indices

\* std::vector<unsigned>::resize: old entries kept, new entries zero
resizeVector(vec, n) ==
  [p \in 0..n-1 |-> IF p \in DOMAIN vec THEN vec[p] ELSE 0]

\* vec[p] = x; a write past the end is an access outside the buffer
WriteIndices(mv, p, x) ==
  IF p \in DOMAIN mv.indices THEN [mv EXCEPT !.indices[p] = x] ELSE Fault(mv)

getNumberOfMatrixRowDerivatives(mv) == mv.matrix_row_nderivatives

setNumberOfMatrixRowDerivatives(mv, nind) ==
  IF nind <= Cardinality(DOMAIN mv.matrix_row_derivative_indices)
  THEN [mv EXCEPT !.matrix_row_nderivatives = nind] ELSE Fault(mv)

\* getMatrixRowDerivativeIndices()[p] = x
WriteMatrixRowDerivativeIndices(mv, p, x) ==
  IF p \in DOMAIN mv.matrix_row_derivative_indices
  THEN [mv EXCEPT !.matrix_row_derivative_indices[p] = x] ELSE Fault(mv)

\* the matrix-index channel used by MatrixProductBase (one matrix, nmat = 0)
getNumberOfMatrixIndices(mv) == mv.nmatrix_indices

setNumberOfMatrixIndices(mv, nind) == [mv EXCEPT !.nmatrix_indices = nind]

\* getMatrixIndices(nmat)[p] = x
WriteMatrixIndices(mv, p, x) ==
  IF p \in DOMAIN mv.matrix_indices
  THEN [mv EXCEPT !.matrix_indices[p] = x] ELSE Fault(mv)

inMatrixRerun(mv) == mv.inMatrixRerun

inVectorCall(mv) == mv.matrix_force_stash_size > 0 /\ mv.vector_call

getTaskIndex(mv) == mv.task_index

\* clearDerivatives(v) / clear(v): the value, every derivative and flag of
\* v and the active list of v go back to their state after resize.
clearDerivatives(mv, ival) ==
  LET nd == mv.nderivatives
      row == {k \in DOMAIN mv.derivatives : k \div nd = ival}
  IN  clearActiveMembers(
        [mv EXCEPT !.values[ival] = 0,
                   !.derivatives = [k \in DOMAIN @ |-> IF k \in row THEN 0 ELSE @[k]],
                   !.hasderiv = [k \in DOMAIN @ |-> IF k \in row THEN FALSE ELSE @[k]]],
        ival)

clear(mv, ival) == clearDerivatives(mv, ival)

RECURSIVE clearFrom(_, _)
clearFrom(mv, ival) ==
  IF ival \notin DOMAIN mv.values THEN mv
  ELSE clearFrom(clearDerivatives(mv, ival), ival + 1)

clearAll(mv) ==
  [clearFrom(mv, 0) EXCEPT !.atLeastOneSet = FALSE,
                           !.matrix_row_nderivatives = 0,
                           !.nmatrix_indices = 0]

\* The active indices of value ival with their derivatives, in
\* registration order.
ActiveDerivatives(mv, ival) ==
  [p \in 1..mv.nactive[ival] |->
     <<getActiveIndex(mv, ival, p - 1), getDerivative(mv, ival, getActiveIndex(mv, ival, p - 1))>>]

\* The list of active indices of value ival, in registration order.
ActiveSeq(mv, ival) ==
  [p \in 1..mv.nactive[ival] |-> getActiveIndex(mv, ival, p - 1)]

\* ---------------------------------------------------------------------
\* MatrixProductBase: construction
\* ---------------------------------------------------------------------

\* A Value as the constructor sees it: rank and shape, whether it carries
\* derivatives, whether it is a time series, its name, the name of the
\* action that calculates it and the name of that action's first argument.
\* Values of rank above 2 always carry derivatives (grids) and are covered
\* by hasDerivatives.
ActionNames == {"TRANSPOSE", "VSTACK", "OTHER"}
ShapesOfRank(r) ==
  IF r = 0 THEN {<<>>}
  ELSE IF r = 1 THEN {<<a>> : a \in 1..MaxDim}
  ELSE {<<a, b>> : a \in 1..MaxDim, b \in 1..MaxDim}
ArgValues(nm) ==
  UNION {[name : {nm}, rank : {r}, shape : ShapesOfRank(r),
          hasDerivatives : BOOLEAN, timeSeries : BOOLEAN,
          action : ActionNames, actionArg : {"a", "b"}] : r \in 0..2}
getRank(val) == val.rank
getShape(val, d) == val.shape[d + 1]

\* the object before the body of the constructor runs (initialiser list)
NotBuilt ==
  [phase |-> "new", error |-> "", tasks |-> <<>>, shape |-> <<>>,
   hasValue |-> FALSE, skip_ieqj |-> FALSE, isAdjacencyMatrix |-> FALSE,
   timeSeries |-> FALSE]

\* error(): throws; construction ends with what was done so far
Fail(c, msg) == [c EXCEPT !.phase = "failed", !.error = msg]

\* name().find("STACK") != npos
ContainsSTACK(nm) == nm = "VSTACK"

\* the shape check compares the columns of both matrices
getMatrixShapeForFinalTasks_cols(c, a) ==
  IF getRank(a[1]) = 1 /\ getRank(a[2]) = 1
  THEN [c EXCEPT !.shape = <<getShape(a[2], 0), getShape(a[1], 0)>>]
  ELSE IF getRank(a[1]) = 2 /\ getRank(a[2]) = 2
  THEN IF getShape(a[1], 1) # getShape(a[2], 1)
       THEN Fail(c, "number of columns in first matrix is not equal to number of columns in second")
       ELSE [c EXCEPT !.shape = <<getShape(a[1], 0), getShape(a[2], 1)>>]
  ELSE Fail(c, "cannot do product of matrix and vector")

\* Returns the object with shape (and skip_ieqj) set, or failed.
getMatrixShapeForFinalTasks(c, a) ==
  IF getRank(a[1]) = 1 /\ getRank(a[2]) = 1
  THEN [c EXCEPT !.shape = <<getShape(a[2], 0), getShape(a[1], 0)>>]
  ELSE IF getRank(a[1]) = 2 /\ getRank(a[2]) = 2
  THEN IF getShape(a[1], 1) # getShape(a[2], 0)
       THEN Fail(c, "number of columns in first matrix is not equal to number of columns in second")
       ELSE [c EXCEPT
              !.shape = <<getShape(a[1], 0), getShape(a[2], 1)>>,
              !.skip_ieqj =
                 IF a[1].action = "TRANSPOSE"
                 THEN IF a[1].actionArg = a[2].name /\ ContainsSTACK(a[2].action)
                      THEN TRUE ELSE @
                 ELSE IF a[2].action = "TRANSPOSE"
                 THEN IF a[2].actionArg = a[1].name /\ ContainsSTACK(a[1].action)
                      THEN TRUE ELSE @
                 ELSE @]
  ELSE Fail(c, "cannot do product of matrix and vector")

\* for(j<shape[0]) addTaskToList(j); addValue(shape)
addTasksAndValue(c) ==
  [c EXCEPT !.tasks = [j \in 1..c.shape[1] |-> j - 1], !.hasValue = TRUE]

\* the time-series check without its else branch (a variant used to test
\* the properties)
timeSeriesCheck_noelse(c, a) ==
  IF a[1].timeSeries
  THEN IF \E i \in 2..Len(a) : ~a[i].timeSeries
       THEN Fail(c, "all arguments should either be time series or not time series")
       ELSE [c EXCEPT !.timeSeries = TRUE, !.phase = "built"]
  ELSE [c EXCEPT !.phase = "built"]

\* "Now do some stuff for time series"
timeSeriesCheck(c, a) ==
  IF a[1].timeSeries
  THEN IF \E i \in 2..Len(a) : ~a[i].timeSeries
       THEN Fail(c, "all arguments should either be time series or not time series")
       ELSE [c EXCEPT !.timeSeries = TRUE, !.phase = "built"]
  ELSE IF \E i \in 2..Len(a) : a[i].timeSeries
       THEN Fail(c, "all arguments should either be time series or not time series")
       ELSE [c EXCEPT !.phase = "built"]

\* MatrixProductBase::MatrixProductBase
MatrixProductBase(a) ==
  LET c == NotBuilt IN
  IF Len(a) > 0
  THEN IF Len(a) # 2 THEN Fail(c, "should only have two arguments")
       ELSE IF \E i \in 1..2 : getRank(a[i]) = 0 \/ a[i].hasDerivatives
       THEN Fail(c, "arguments should be matrices or vectors")
       ELSE LET c1 == getMatrixShapeForFinalTasks(c, a) IN
            IF c1.phase = "failed" THEN c1
            ELSE timeSeriesCheck(addTasksAndValue(c1), a)
  ELSE [c EXCEPT !.phase = "built"]

\* Every ARG list: none, one, two or three Values.
ArgLists ==
  {<<>>} \cup {<<x>> : x \in ArgValues("a")}
         \cup {<<x, y>> : x \in ArgValues("a"), y \in ArgValues("b")}
         \cup {<<x, y, y>> : x \in {z \in ArgValues("a") : z.rank = 1 /\ z.action = "OTHER"},
                             y \in {z \in ArgValues("b") : z.action = "OTHER" /\ z.actionArg = "a"}}


\* ---------------------------------------------------------------------
\* Matrix components: the state of a component and of its task loop
\* ---------------------------------------------------------------------
NoAct == [kind |-> "none"]
NoLast == [row |-> 0, index2 |-> 0, ret |-> FALSE, computed |-> FALSE,
           before |-> resize(0, 0), after |-> resize(0, 0)]

\* no component: the task-loop variables of the other specifications
NoFrc == [value |-> <<>>, forcesToApply |-> <<>>, atoms |-> <<>>, virial |-> <<>>,
          arguments |-> <<>>, applied |-> FALSE]
\* no component of the other kinds
NoTm == [kind |-> "none"]
NoPar == [kind |-> "none"]
NoSch == [kind |-> "none"]
NoAvg == [kind |-> "none"]
NoVol == [kind |-> "none"]
NoOther == tm = NoTm /\ par = NoPar /\ sch = NoSch /\ avg = NoAvg /\ vol = NoVol

NoRow == /\ act = NoAct /\ pc = "idle" /\ current = 0 /\ li = 0
         /\ out = <<>> /\ evals = <<>> /\ last = NoLast /\ jac = <<>> /\ frc = NoFrc

\* Value::getSize / getNumberOfStoredValues of a dense Value
getSize(val) ==
  IF val.rank = 1 THEN val.shape[1] ELSE IF val.rank = 2 THEN val.shape[1]*val.shape[2] ELSE 1

getNumberOfArguments(c) == Len(c.args)
getNumberOfAtoms(c) == c.natoms
getFullNumberOfTasks(c) == c.ntasks
doNotCalculateDerivatives(c) == c.noderiv

\* narg_derivatives / numargs: the sizes of both arguments
numberOfArgDerivatives(c) ==
  IF getNumberOfArguments(c) > 0 THEN getSize(c.args[1]) + getSize(c.args[2]) ELSE 0

\* MatrixProductBase::getNumberOfDerivatives
MPB_getNumberOfDerivatives(c) ==
  IF getNumberOfAtoms(c) > 0
  THEN 3*getNumberOfAtoms(c) + 9 + numberOfArgDerivatives(c)
  ELSE numberOfArgDerivatives(c)

\* x, x+1, ..., x+n-1
Run(x, n) == [p \in 1..n |-> x + p - 1]

RECURSIVE updateIndexAll(_, _, _)
\* updateIndex(ival, j) for every j of js, in order
updateIndexAll(mv, ival, js) ==
  IF js = <<>> THEN mv
  ELSE updateIndexAll(updateIndex(mv, ival, Head(js)), ival, Tail(js))

RECURSIVE addDerivativeAll(_, _, _, _)
\* addDerivative(ival, j, der) for every j of js, in order
addDerivativeAll(mv, ival, js, der) ==
  IF js = <<>> THEN mv
  ELSE addDerivativeAll(addDerivative(mv, ival, Head(js), der), ival, Tail(js), der)

RECURSIVE WriteMatrixIndicesAll(_, _, _)
\* matrix_indices[p], matrix_indices[p+1], ... = the entries of xs
WriteMatrixIndicesAll(mv, p, xs) ==
  IF xs = <<>> THEN mv
  ELSE WriteMatrixIndicesAll(WriteMatrixIndices(mv, p, Head(xs)), p + 1, Tail(xs))

\* clearMatrixElements: the matrix element held in the stream (value,
\* derivatives, active list) is cleared; what is accumulated over the
\* whole row (the index stash) is kept.
clearMatrixElements(c, mv) == clear(mv, 0)

\* computeVectorProduct is pure virtual: its result inp.val and what it
\* adds to the MultiValue are inputs.  All derivatives it returns are 1;
\* an atomistic override may add the derivatives with respect to the two
\* atoms and the virial.
computeVectorProduct(c, index1, index2, mv, inp) ==
  IF getNumberOfAtoms(c) > 0 /\ inp.atomder
  THEN LET base == numberOfArgDerivatives(c) IN
       addDerivativeAll(mv, 0,
         Run(base + 3*index1, 3) \o Run(base + 3*index2, 3)
           \o Run(base + 3*getNumberOfAtoms(c), 9), 1)
  ELSE mv

RECURSIVE thirdBlock(_, _)
\* 3*indices[i]+{0,1,2} for i = from .. getNumberOfIndices()-1
thirdBlock(mv, from) ==
  IF from >= getNumberOfIndices(mv) THEN <<>>
  ELSE Run(3*mv.indices[from], 3) \o thirdBlock(mv, from + 1)

\* updateAtomicIndices that leaves the stash alone (a variant used to
\* test the properties)
updateAtomicIndices_nostash(c, index1, index2, mv) ==
  LET nd == numberOfArgDerivatives(c)
      third == thirdBlock(mv, getSplitIndex(mv))
  IN updateIndexAll(mv, 0,
       Run(nd + 3*index1, 3) \o Run(nd + 3*index2, 3)
         \o [p \in DOMAIN third |-> nd + third[p]]
         \o Run(nd + 3*getNumberOfAtoms(c), 9))

\* MatrixProductBase::updateAtomicIndices
updateAtomicIndices(c, index1, index2, mv) ==
  LET nd == numberOfArgDerivatives(c)
      w_ind == 0
  IN IF \E i \in getSplitIndex(mv)..getNumberOfIndices(mv)-1 : i \notin DOMAIN mv.indices
     THEN Fault(mv)
     ELSE
     LET third == thirdBlock(mv, getSplitIndex(mv))
         mv1 == updateIndexAll(mv, w_ind,
                  Run(nd + 3*index1, 3) \o Run(nd + 3*index2, 3)
                    \o [p \in DOMAIN third |-> nd + third[p]]
                    \o Run(nd + 3*getNumberOfAtoms(c), 9))
     IN IF ~inMatrixRerun(mv1)
        THEN LET nmat_ind == getNumberOfMatrixIndices(mv1) IN
             setNumberOfMatrixIndices(
               WriteMatrixIndicesAll(mv1, nmat_ind, Run(nd + 3*index2, 3)),
               nmat_ind + 3)
        ELSE mv1

RECURSIVE MPB_argLoop(_, _, _, _)
\* the loop "for(unsigned i=0; i<nargs; ++i)" of performTask, from i on;
\* k carries index1, ind2, nargs, sss, jind_start; r carries myvals and
\* the local nmat_ind
MPB_argLoop(c, k, i, r) ==
  IF i >= k.nargs THEN r
  ELSE LET j1 == k.nargs*k.index1 + i
           j2 == k.jind_start + i*k.sss + k.ind2
           mv1 == updateIndex(addDerivative(r.mv, 0, j1, 1), 0, j1)
           mv2 == updateIndex(addDerivative(mv1, 0, j2, 1), 0, j2)
       IN IF ~inMatrixRerun(mv2)
          THEN MPB_argLoop(c, k, i + 1,
                 [mv |-> WriteMatrixIndices(mv2, r.nmat_ind, j2), nmat_ind |-> r.nmat_ind + 1])
          ELSE MPB_argLoop(c, k, i + 1, [mv |-> mv2, nmat_ind |-> r.nmat_ind])

\* performTask(controller, index1, index2, myvals) that computes the element
\* whatever the controller is (a variant used to test the properties)
MPB_performTask_anycontroller(c, controller, index1, index2, mv, inp) ==
  LET ind2 == IF index2 >= getFullNumberOfTasks(c) THEN index2 - getFullNumberOfTasks(c) ELSE index2
      hasArgs == getNumberOfArguments(c) > 0
      sss == IF hasArgs THEN (IF getRank(c.args[2]) = 2 THEN getShape(c.args[2], 1) ELSE 1) ELSE 0
      nargs == IF hasArgs THEN (IF getRank(c.args[1]) = 2 THEN getShape(c.args[1], 1) ELSE 1) ELSE 0
      \* args1[i] = arg0->get(index1*nargs+i), args2[i] = arg1->get(i*sss+ind2)
      readsOK == \A i \in 0..nargs-1 :
                    /\ index1*nargs + i < getSize(c.args[1])
                    /\ i*sss + ind2 < getSize(c.args[2])
  IN IF ~readsOK THEN [ret |-> FALSE, mv |-> Fault(mv), computed |-> TRUE]
     ELSE
     LET mv0 == computeVectorProduct(c, index1, index2, mv, inp) IN
     IF inp.val = 0     \* abs(val) < epsilon
     THEN [ret |-> FALSE, computed |-> TRUE,
           mv |-> IF ~doNotCalculateDerivatives(c)
                  THEN clearMatrixElements(c,
                         IF getNumberOfAtoms(c) > 0
                         THEN updateAtomicIndices(c, index1, index2, mv0) ELSE mv0)
                  ELSE mv0]
     ELSE
     LET mv1 == setValue(mv0, 0, inp.val) IN
     IF doNotCalculateDerivatives(c)
     THEN [ret |-> TRUE, computed |-> TRUE, mv |-> mv1]
     ELSE
     LET k == [index1 |-> index1, ind2 |-> ind2, nargs |-> nargs, sss |-> sss,
               jind_start |-> IF hasArgs THEN getSize(c.args[1]) ELSE 0]
         r == MPB_argLoop(c, k, 0, [mv |-> mv1, nmat_ind |-> getNumberOfMatrixIndices(mv1)])
         mv2 == setNumberOfMatrixIndices(r.mv, r.nmat_ind)
     IN [ret |-> TRUE, computed |-> TRUE,
         mv |-> IF getNumberOfAtoms(c) > 0
                THEN updateAtomicIndices(c, index1, index2, mv2) ELSE mv2]

\* performTask(controller, index1, index2, myvals) without the test of the
\* value against epsilon (a variant used to test the properties)
MPB_performTask_noepsilon(c, controller, index1, index2, mv, inp) ==
  IF c.isAdjacencyMatrix /\ controller # c.label
  THEN [ret |-> FALSE, mv |-> mv, computed |-> FALSE]
  ELSE
  LET ind2 == IF index2 >= getFullNumberOfTasks(c) THEN index2 - getFullNumberOfTasks(c) ELSE index2
      hasArgs == getNumberOfArguments(c) > 0
      sss == IF hasArgs THEN (IF getRank(c.args[2]) = 2 THEN getShape(c.args[2], 1) ELSE 1) ELSE 0
      nargs == IF hasArgs THEN (IF getRank(c.args[1]) = 2 THEN getShape(c.args[1], 1) ELSE 1) ELSE 0
      \* args1[i] = arg0->get(index1*nargs+i), args2[i] = arg1->get(i*sss+ind2)
      readsOK == \A i \in 0..nargs-1 :
                    /\ index1*nargs + i < getSize(c.args[1])
                    /\ i*sss + ind2 < getSize(c.args[2])
  IN IF ~readsOK THEN [ret |-> FALSE, mv |-> Fault(mv), computed |-> TRUE]
     ELSE
     LET mv0 == computeVectorProduct(c, index1, index2, mv, inp) IN
     LET mv1 == setValue(mv0, 0, inp.val) IN
     IF doNotCalculateDerivatives(c)
     THEN [ret |-> TRUE, computed |-> TRUE, mv |-> mv1]
     ELSE
     LET k == [index1 |-> index1, ind2 |-> ind2, nargs |-> nargs, sss |-> sss,
               jind_start |-> IF hasArgs THEN getSize(c.args[1]) ELSE 0]
         r == MPB_argLoop(c, k, 0, [mv |-> mv1, nmat_ind |-> getNumberOfMatrixIndices(mv1)])
         mv2 == setNumberOfMatrixIndices(r.mv, r.nmat_ind)
     IN [ret |-> TRUE, computed |-> TRUE,
         mv |-> IF getNumberOfAtoms(c) > 0
                THEN updateAtomicIndices(c, index1, index2, mv2) ELSE mv2]

\* MatrixProductBase::performTask(controller, index1, index2, myvals):
\* returns [ret, mv, computed]; computed tells that the element went
\* through computeVectorProduct.
MPB_performTask(c, controller, index1, index2, mv, inp) ==
  IF c.isAdjacencyMatrix /\ controller # c.label
  THEN [ret |-> FALSE, mv |-> mv, computed |-> FALSE]
  ELSE
  LET ind2 == IF index2 >= getFullNumberOfTasks(c) THEN index2 - getFullNumberOfTasks(c) ELSE index2
      hasArgs == getNumberOfArguments(c) > 0
      sss == IF hasArgs THEN (IF getRank(c.args[2]) = 2 THEN getShape(c.args[2], 1) ELSE 1) ELSE 0
      nargs == IF hasArgs THEN (IF getRank(c.args[1]) = 2 THEN getShape(c.args[1], 1) ELSE 1) ELSE 0
      \* args1[i] = arg0->get(index1*nargs+i), args2[i] = arg1->get(i*sss+ind2)
      readsOK == \A i \in 0..nargs-1 :
                    /\ index1*nargs + i < getSize(c.args[1])
                    /\ i*sss + ind2 < getSize(c.args[2])
  IN IF ~readsOK THEN [ret |-> FALSE, mv |-> Fault(mv), computed |-> TRUE]
     ELSE
     LET mv0 == computeVectorProduct(c, index1, index2, mv, inp) IN
     IF inp.val = 0     \* abs(val) < epsilon
     THEN [ret |-> FALSE, computed |-> TRUE,
           mv |-> IF ~doNotCalculateDerivatives(c)
                  THEN clearMatrixElements(c,
                         IF getNumberOfAtoms(c) > 0
                         THEN updateAtomicIndices(c, index1, index2, mv0) ELSE mv0)
                  ELSE mv0]
     ELSE
     LET mv1 == setValue(mv0, 0, inp.val) IN
     IF doNotCalculateDerivatives(c)
     THEN [ret |-> TRUE, computed |-> TRUE, mv |-> mv1]
     ELSE
     LET k == [index1 |-> index1, ind2 |-> ind2, nargs |-> nargs, sss |-> sss,
               jind_start |-> IF hasArgs THEN getSize(c.args[1]) ELSE 0]
         r == MPB_argLoop(c, k, 0, [mv |-> mv1, nmat_ind |-> getNumberOfMatrixIndices(mv1)])
         mv2 == setNumberOfMatrixIndices(r.mv, r.nmat_ind)
     IN [ret |-> TRUE, computed |-> TRUE,
         mv |-> IF getNumberOfAtoms(c) > 0
                THEN updateAtomicIndices(c, index1, index2, mv2) ELSE mv2]

RECURSIVE MPB_fillIndices(_, _, _, _)
\* the loop of setupForTask from column i on; k is the next free position
MPB_fillIndices(c, mv, i, k) ==
  IF i >= c.shape[2] THEN mv
  ELSE IF c.skip_ieqj /\ getTaskIndex(mv) = i THEN MPB_fillIndices(c, mv, i + 1, k)
  ELSE MPB_fillIndices(c, WriteIndices(mv, k, getFullNumberOfTasks(c) + i), i + 1, k + 1)

\* setupForTask that does not write the anchor (a variant used to test
\* the properties)
MPB_setupForTask_noanchor(c, cur, mv) ==
  LET size_v == c.shape[2]
      n == IF c.skip_ieqj THEN size_v ELSE size_v + 1
      mv1 == [mv EXCEPT !.indices = resizeVector(@, n)]
      mv2 == MPB_fillIndices(c, mv1, 0, 1)
  IN setNumberOfIndices(setSplitIndex(mv2, n), n)

\* setupForTask that fills the columns before it writes the anchor and
\* takes the row to skip from the anchor (a variant used to test the
\* properties)
MPB_setupForTask_staleanchor(c, cur, mv) ==
  LET size_v == c.shape[2]
      n == IF c.skip_ieqj THEN size_v ELSE size_v + 1
      mv1 == [mv EXCEPT !.indices = resizeVector(@, n)]
      mv2 == MPB_fillIndices(c, setTaskIndex(mv1, mv1.indices[0]), 0, 1)
  IN setNumberOfIndices(setSplitIndex(WriteIndices(setTaskIndex(mv2, cur), 0, cur), n), n)

\* MatrixProductBase::setupForTask
MPB_setupForTask(c, cur, mv) ==
  LET size_v == c.shape[2]
      n == IF c.skip_ieqj THEN size_v ELSE size_v + 1
      mv1 == [mv EXCEPT !.indices = resizeVector(@, n)]
      mv2 == MPB_fillIndices(c, WriteIndices(mv1, 0, cur), 0, 1)
  IN setNumberOfIndices(setSplitIndex(mv2, n), n)

\* MatrixProductBase::updateCentralMatrixIndex (one component)
updateCentralMatrixIndex(c, ind, mv) ==
  LET nmat_ind == getNumberOfMatrixIndices(mv)
      hasArgs == getNumberOfArguments(c) > 0
      nargs == IF hasArgs THEN (IF getRank(c.args[1]) = 2 THEN getShape(c.args[1], 1) ELSE 1) ELSE 0
      numargs == numberOfArgDerivatives(c)
      mv1 == WriteMatrixIndicesAll(mv, nmat_ind, Run(nargs*ind, nargs))
      n1 == nmat_ind + nargs
  IN IF getNumberOfAtoms(c) > 0
     THEN IF \E i \in getSplitIndex(mv)..getNumberOfIndices(mv)-1 : i \notin DOMAIN mv.indices
          THEN Fault(mv)
          ELSE LET third == thirdBlock(mv, getSplitIndex(mv))
                   entries == Run(numargs + 3*ind, 3)
                                \o [p \in DOMAIN third |-> numargs + third[p]]
                                \o Run(numargs + 3*getNumberOfAtoms(c), 9)
               IN setNumberOfMatrixIndices(
                    WriteMatrixIndicesAll(mv1, n1, entries), n1 + Len(entries))
     ELSE setNumberOfMatrixIndices(mv1, n1)

\* ---------------------------------------------------------------------
\* OuterProduct
\* ---------------------------------------------------------------------
getNumberOfMasks(c) == c.nmasks

\* OuterProduct::getNumberOfDerivatives
OP_getNumberOfDerivatives(c) == getSize(c.args[1]) + getSize(c.args[2])

RECURSIVE OP_fillMask(_, _, _, _)
\* indices[i+1] = start_n + maskarg->getRowIndex(task_index, i), from i on
OP_fillMask(c, mv, task_index, i) ==
  IF i >= Len(c.mask[task_index + 1]) THEN mv
  ELSE OP_fillMask(c,
         WriteIndices(mv, i + 1, getShape(c.args[1], 0) + c.mask[task_index + 1][i + 1]),
         task_index, i + 1)

RECURSIVE OP_fillDiagzero(_, _, _, _, _)
\* the loop of the diagzero branch from column i on; k is the next position
OP_fillDiagzero(c, mv, task_index, i, k) ==
  LET size_v == getShape(c.args[2], 0) IN
  IF i >= size_v THEN mv
  ELSE IF task_index = i THEN OP_fillDiagzero(c, mv, task_index, i + 1, k)
  ELSE OP_fillDiagzero(c, WriteIndices(mv, k, size_v + i), task_index, i + 1, k + 1)

RECURSIVE OP_fillAll(_, _, _)
\* indices[i+1] = start_n + i, from i on
OP_fillAll(c, mv, i) ==
  IF i >= getShape(c.args[2], 0) THEN mv
  ELSE OP_fillAll(c, WriteIndices(mv, i + 1, getShape(c.args[1], 0) + i), i + 1)

\* OuterProduct::setupForTask
OP_setupForTask(c, task_index, mv) ==
  IF getNumberOfMasks(c) > 0
  THEN LET size_v == Len(c.mask[task_index + 1])
           mv1 == [mv EXCEPT !.indices = resizeVector(@, size_v + 1)]
       IN setSplitIndex(OP_fillMask(c, mv1, task_index, 0), 1 + size_v)
  ELSE LET size_v == getShape(c.args[2], 0) IN
       IF c.diagzero
       THEN LET mv1 == [mv EXCEPT !.indices = resizeVector(@, size_v)]
            IN setSplitIndex(OP_fillDiagzero(c, mv1, task_index, 0, 1), size_v)
       ELSE LET mv1 == [mv EXCEPT !.indices = resizeVector(@, size_v + 1)]
            IN setSplitIndex(OP_fillAll(c, mv1, 0), size_v + 1)

\* performTask that leaves out the derivative with respect to the second
\* vector (a variant used to test the properties)
OP_performTask_onederiv(c, controller, index1, index2, mv, inp) ==
  LET n0 == getShape(c.args[1], 0)
      ind2 == IF index2 >= n0 THEN index2 - n0 ELSE index2
  IN IF c.diagzero /\ index1 = ind2
     THEN [ret |-> FALSE, mv |-> mv, computed |-> FALSE]
     ELSE IF ~(index1 < getSize(c.args[1]) /\ ind2 < getSize(c.args[2]))
     THEN [ret |-> FALSE, mv |-> Fault(mv), computed |-> TRUE]
     ELSE
     LET second == IF c.func = "min" THEN inp.y < inp.x
                   ELSE IF c.func = "max" THEN inp.y > inp.x ELSE FALSE
         fval == IF c.func \in {"min", "max"}
                 THEN (IF second THEN inp.y ELSE inp.x)
                 ELSE inp.x * inp.y
         jarg == IF second THEN getSize(c.args[1]) ELSE 0
         kelem == IF second THEN ind2 ELSE index1
         mv1 == addValue(mv, 0, fval)
     IN IF doNotCalculateDerivatives(c)
        THEN [ret |-> TRUE, mv |-> mv1, computed |-> TRUE]
        ELSE
        LET mv2 == IF c.func \in {"min", "max"}
                   THEN updateIndex(addDerivative(mv1, 0, jarg + kelem, 1), 0, jarg + kelem)
                   ELSE updateIndex(addDerivative(mv1, 0, index1, inp.y), 0, index1)
            nmat_ind == getNumberOfMatrixRowDerivatives(mv2)
        IN [ret |-> TRUE, computed |-> TRUE,
            mv |-> setNumberOfMatrixRowDerivatives(
                     WriteMatrixRowDerivativeIndices(mv2, nmat_ind, getSize(c.args[1]) + ind2),
                     nmat_ind + 1)]

\* OuterProduct::performTask(controller, index1, index2, myvals); inp.x and
\* inp.y are the elements read from the two vectors; FUNC is min, max or
\* the default x*y.
OP_performTask(c, controller, index1, index2, mv, inp) ==
  LET n0 == getShape(c.args[1], 0)
      ind2 == IF index2 >= n0 THEN index2 - n0 ELSE index2
  IN IF c.diagzero /\ index1 = ind2
     THEN [ret |-> FALSE, mv |-> mv, computed |-> FALSE]
     ELSE IF ~(index1 < getSize(c.args[1]) /\ ind2 < getSize(c.args[2]))
     THEN [ret |-> FALSE, mv |-> Fault(mv), computed |-> TRUE]
     ELSE
     LET second == IF c.func = "min" THEN inp.y < inp.x
                   ELSE IF c.func = "max" THEN inp.y > inp.x ELSE FALSE
         fval == IF c.func \in {"min", "max"}
                 THEN (IF second THEN inp.y ELSE inp.x)
                 ELSE inp.x * inp.y
         jarg == IF second THEN getSize(c.args[1]) ELSE 0
         kelem == IF second THEN ind2 ELSE index1
         mv1 == addValue(mv, 0, fval)
     IN IF doNotCalculateDerivatives(c)
        THEN [ret |-> TRUE, mv |-> mv1, computed |-> TRUE]
        ELSE
        LET mv2 == IF c.func \in {"min", "max"}
                   THEN updateIndex(addDerivative(mv1, 0, jarg + kelem, 1), 0, jarg + kelem)
                   ELSE updateIndex(
                          addDerivative(
                            updateIndex(addDerivative(mv1, 0, index1, inp.y), 0, index1),
                            0, getSize(c.args[1]) + ind2, inp.x),
                          0, getSize(c.args[1]) + ind2)
            nmat_ind == getNumberOfMatrixRowDerivatives(mv2)
        IN [ret |-> TRUE, computed |-> TRUE,
            mv |-> setNumberOfMatrixRowDerivatives(
                     WriteMatrixRowDerivativeIndices(mv2, nmat_ind, getSize(c.args[1]) + ind2),
                     nmat_ind + 1)]

\* runEndOfRowJobs that writes the entry but leaves the count as it was
\* (a variant used to test the properties)
OP_runEndOfRowJobs_nocount(c, ival, mv) ==
  IF doNotCalculateDerivatives(c) THEN mv
  ELSE WriteMatrixRowDerivativeIndices(mv, getNumberOfMatrixRowDerivatives(mv), ival)

\* runEndOfRowJobs that writes the entry one position after the count it
\* then sets (a variant used to test the properties)
OP_runEndOfRowJobs_beyond(c, ival, mv) ==
  IF doNotCalculateDerivatives(c) THEN mv
  ELSE LET nmat_ind == getNumberOfMatrixRowDerivatives(mv) IN
       setNumberOfMatrixRowDerivatives(
         WriteMatrixRowDerivativeIndices(mv, nmat_ind + 1, ival), nmat_ind + 1)

\* OuterProduct::runEndOfRowJobs
OP_runEndOfRowJobs(c, ival, mv) ==
  IF doNotCalculateDerivatives(c) THEN mv
  ELSE LET nmat_ind == getNumberOfMatrixRowDerivatives(mv) IN
       setNumberOfMatrixRowDerivatives(
         WriteMatrixRowDerivativeIndices(mv, nmat_ind, ival), nmat_ind + 1)

\* ---------------------------------------------------------------------
\* The task loop of a matrix component, one row task after the other on
\* the same MultiValue
\* ---------------------------------------------------------------------

\* runTask: the element task of the component is run for column entry
\* colno with the task indices set
runTask(c, controller, task_index, cur, colno, mv, inp) ==
  LET mv1 == setSecondTaskIndex(setTaskIndex(mv, task_index), colno) IN
  IF c.kind = "MPB" THEN MPB_performTask(c, controller, cur, colno, mv1, inp)
  ELSE OP_performTask(c, controller, cur, colno, mv1, inp)

\* the column a column entry of the indices array stands for
ColumnOf(c, index2) ==
  LET first == IF c.kind = "MPB" THEN getFullNumberOfTasks(c) ELSE getShape(c.args[1], 0)
  IN IF index2 >= first THEN index2 - first ELSE index2

\* what computeVectorProduct / the two vectors can deliver for one element
Inputs(c) ==
  IF c.kind = "MPB"
  THEN [val : {0, 1}, atomder : IF getNumberOfAtoms(c) > 0 THEN BOOLEAN ELSE {FALSE}]
  ELSE [x : {1, 2}, y : {1, 2}]

NextPc(mv, normal) == IF mv.fault THEN "fault" ELSE normal

\* the scheduler sets the task index and calls performTask(current, myvals):
\* MatrixProductBase::performTask up to the element loop
MPB_Setup ==
  /\ act.kind = "MPB" /\ pc = "idle" /\ current < getFullNumberOfTasks(act)
  /\ LET mv0 == setTaskIndex(myvals, current) IN
     IF ~act.isAdjacencyMatrix /\ act.inChain
     THEN /\ myvals' = IF ~doNotCalculateDerivatives(act) /\ inVectorCall(mv0)
                       THEN updateCentralMatrixIndex(act, getTaskIndex(mv0), mv0)
                       ELSE mv0
          /\ pc' = NextPc(myvals', "rowdone")
          /\ UNCHANGED li
     ELSE /\ myvals' = MPB_setupForTask(act, current, mv0)
          /\ pc' = NextPc(myvals', "loop")
          /\ li' = 1
  /\ out' = [col \in 0..act.shape[2]-1 |-> 0]
  /\ evals' = [col \in 0..act.shape[2]-1 |-> 0]
  /\ jac' = [col \in 0..act.shape[2]-1 |-> <<>>]
  /\ UNCHANGED <<act, current, last, frc, op, ncalls, ctorVars, otherVars>>

\* ActionWithMatrix::performTask up to the element loop (OuterProduct)
OP_Setup ==
  /\ act.kind = "OP" /\ pc = "idle" /\ current < getFullNumberOfTasks(act)
  /\ myvals' = OP_setupForTask(act, current, setTaskIndex(myvals, current))
  /\ pc' = NextPc(myvals', "loop")
  /\ li' = 1
  /\ out' = [col \in 0..act.shape[2]-1 |-> 0]
  /\ evals' = [col \in 0..act.shape[2]-1 |-> 0]
  /\ jac' = [col \in 0..act.shape[2]-1 |-> <<>>]
  /\ UNCHANGED <<act, current, last, frc, op, ncalls, ctorVars, otherVars>>

\* one pass of the element loop: runTask, the element is stored in the
\* row when the task produced it, then clearMatrixElements
Element ==
  /\ pc = "loop" /\ li < getSplitIndex(myvals)
  /\ IF li \notin DOMAIN getIndices(myvals)
     THEN /\ myvals' = Fault(myvals) /\ pc' = "fault"
          /\ UNCHANGED <<li, out, evals, last, jac>>
     ELSE
     \E inp \in Inputs(act) :
       LET index2 == getIndices(myvals)[li]
           col == ColumnOf(act, index2)
           inRow == col \in DOMAIN out
       IN \E r \in {runTask(act, act.label, getTaskIndex(myvals), current, index2, myvals, inp)} :
          /\ myvals' = IF r.ret /\ ~inRow THEN Fault(r.mv) ELSE clearMatrixElements(act, r.mv)
          /\ out' = IF r.ret /\ inRow /\ ~r.mv.fault THEN [out EXCEPT ![col] = get(r.mv, 0)] ELSE out
          /\ jac' = IF r.ret /\ inRow /\ ~r.mv.fault
                    THEN [jac EXCEPT ![col] = ActiveDerivatives(r.mv, 0)] ELSE jac
          /\ evals' = IF r.computed /\ inRow THEN [evals EXCEPT ![col] = @ + 1] ELSE evals
          /\ last' = [row |-> current, index2 |-> index2, ret |-> r.ret, computed |-> r.computed,
                      before |-> myvals, after |-> r.mv]
          /\ li' = li + 1
          /\ pc' = NextPc(myvals', "loop")
  /\ UNCHANGED <<act, current, frc, op, ncalls, ctorVars, otherVars>>

\* after the loop: updateCentralMatrixIndex / runEndOfRowJobs
EndOfRow ==
  /\ pc = "loop" /\ li >= getSplitIndex(myvals)
  /\ myvals' = IF act.kind = "MPB"
               THEN IF ~doNotCalculateDerivatives(act)
                    THEN updateCentralMatrixIndex(act, getTaskIndex(myvals), myvals)
                    ELSE myvals
               ELSE OP_runEndOfRowJobs(act, current, myvals)
  /\ pc' = NextPc(myvals', "rowdone")
  /\ UNCHANGED <<act, current, li, out, evals, last, jac, frc, op, ncalls, ctorVars, otherVars>>

\* the scheduler resets the MultiValue and goes to the next task
NextTask ==
  /\ pc = "rowdone"
  /\ myvals' = clearAll(myvals)
  /\ current' = current + 1
  /\ pc' = IF current + 1 < getFullNumberOfTasks(act) THEN "idle" ELSE "alldone"
  /\ UNCHANGED <<act, li, out, evals, last, jac, frc, op, ncalls, ctorVars, otherVars>>

\* ---------------------------------------------------------------------
\* Forces: Value::addForce on the output, then MatrixProductBase::apply
\* ---------------------------------------------------------------------

RECURSIVE scatter(_, _, _)
\* forces[idx] += f*der for every stored active entry <<idx, der>>
scatter(forces, entries, f) ==
  IF entries = <<>> THEN forces
  ELSE LET idx == Head(entries)[1]
           der == Head(entries)[2]
       IN scatter([forces EXCEPT ![idx] = @ + f*der], Tail(entries), f)

RECURSIVE gatherFrom(_, _, _, _)
\* the elements of the row from column col on
gatherFrom(forces, value, stored, col) ==
  IF col \notin DOMAIN value THEN forces
  ELSE gatherFrom(IF value[col] # 0 THEN scatter(forces, stored[col], value[col]) ELSE forces,
                  value, stored, col + 1)

\* getForcesFromValues: every output element that received a force adds
\* force x derivative at each of its active indices; tells whether any
\* element had a force
getForcesFromValues(forces, value, stored) ==
  [any |-> \E col \in DOMAIN value : value[col] # 0,
   forces |-> gatherFrom(forces, value, stored, 0)]

\* setForcesOnAtoms(forcesToApply, mm): the atoms' components, then the
\* virial, are read from position mm on, which is advanced
setForcesOnAtoms(c, f, forces, mm) ==
  IF getNumberOfAtoms(c) = 0 THEN [f |-> f, mm |-> mm]
  ELSE [f |-> [f EXCEPT
                 !.atoms = [q \in DOMAIN @ |-> @[q] + forces[mm + q]],
                 !.virial = [q \in DOMAIN @ |-> @[q] + forces[mm + 3*getNumberOfAtoms(c) + q]]],
        mm |-> mm + 3*getNumberOfAtoms(c) + 9]

\* setForcesOnArguments(0, forcesToApply, mm): the elements of the
\* arguments, in order, are read from position mm on
setForcesOnArguments(c, f, forces, mm) ==
  [f |-> [f EXCEPT !.arguments = [q \in DOMAIN @ |-> @[q] + forces[mm + q]]],
   mm |-> mm + numberOfArgDerivatives(c)]

\* apply() that neither clears forcesToApply nor asks whether a force was
\* added (a variant used to test the properties)
apply_unguarded(c, f, stored) ==
  LET g == getForcesFromValues(f.forcesToApply, f.value, stored)
      f1 == [f EXCEPT !.forcesToApply = g.forces]
      a == setForcesOnAtoms(c, f1, g.forces, 0)
  IN setForcesOnArguments(c, a.f, g.forces, a.mm).f

\* apply() without the test of the do-not-calculate-derivatives flag (a
\* variant used to test the properties)
apply_noflag(c, f, stored) ==
  LET zero == [q \in DOMAIN f.forcesToApply |-> 0]
      g == getForcesFromValues(zero, f.value, stored)
      f1 == [f EXCEPT !.forcesToApply = g.forces]
  IN IF g.any
     THEN LET a == setForcesOnAtoms(c, f1, g.forces, 0)
          IN setForcesOnArguments(c, a.f, g.forces, a.mm).f
     ELSE f1

\* MatrixProductBase::apply
apply(c, f, stored) ==
  IF doNotCalculateDerivatives(c) THEN f
  ELSE LET zero == [q \in DOMAIN f.forcesToApply |-> 0]
           g == getForcesFromValues(zero, f.value, stored)
           f1 == [f EXCEPT !.forcesToApply = g.forces]
       IN IF g.any
          THEN LET a == setForcesOnAtoms(c, f1, g.forces, 0)
               IN setForcesOnArguments(c, a.f, g.forces, a.mm).f
          ELSE f1

\* a force is deposited on one element of the row that was stored last
AddForce ==
  /\ pc = "alldone" /\ act.kind = "MPB" /\ ~frc.applied
  /\ \A col \in DOMAIN frc.value : frc.value[col] = 0
  /\ \E col \in DOMAIN frc.value, F \in 1..MaxForce :
       /\ frc' = [frc EXCEPT !.value[col] = F]
  /\ UNCHANGED <<myvals, act, pc, current, li, out, evals, last, jac, op, ncalls, ctorVars, otherVars>>

Apply ==
  /\ pc = "alldone" /\ act.kind = "MPB" /\ ~frc.applied
  /\ frc' = [apply(act, frc, jac) EXCEPT !.applied = TRUE]
  /\ UNCHANGED <<myvals, act, pc, current, li, out, evals, last, jac, op, ncalls, ctorVars, otherVars>>

NextRow == MPB_Setup \/ OP_Setup \/ Element \/ EndOfRow \/ NextTask \/ AddForce \/ Apply

\* the components whose tasks are run
PlainValues(nm, r) ==
  {z \in ArgValues(nm) : z.rank = r /\ ~z.hasDerivatives /\ ~z.timeSeries}
Reverse2(sh) == <<sh[2], sh[1]>>

\* argument pairs of a matrix product: two vectors, two matrices that are
\* unrelated, or a VSTACK matrix and its TRANSPOSE (in either order)
ProductArgs ==
  {<<x, y>> : x \in {z \in PlainValues("a", 1) : z.action = "OTHER" /\ z.actionArg = "a"},
              y \in {z \in PlainValues("b", 1) : z.action = "OTHER" /\ z.actionArg = "a"}}
  \cup {p \in PlainValues("a", 2) \X PlainValues("b", 2) :
          \/ p[1].action = "OTHER" /\ p[2].action = "OTHER"
             /\ p[1].actionArg = "a" /\ p[2].actionArg = "a"
          \/ p[1].action = "TRANSPOSE" /\ p[1].actionArg = "b" /\ p[2].action = "VSTACK"
             /\ p[2].actionArg = "a" /\ p[1].shape = Reverse2(p[2].shape)
          \/ p[2].action = "TRANSPOSE" /\ p[2].actionArg = "a" /\ p[1].action = "VSTACK"
             /\ p[1].actionArg = "a" /\ p[2].shape = Reverse2(p[1].shape)}

\* a product of the two Values of a, as its constructor builds it, with na atoms
MPB_Product(a, na, nod) ==
  LET c == MatrixProductBase(a) IN
  [kind |-> "MPB", label |-> "m", args |-> a, shape |-> c.shape,
   ntasks |-> Len(c.tasks), skip_ieqj |-> c.skip_ieqj,
   isAdjacencyMatrix |-> FALSE, inChain |-> FALSE, natoms |-> na, noderiv |-> nod,
   diagzero |-> FALSE, nmasks |-> 0, mask |-> <<>>, func |-> "product"]

\* an adjacency matrix: no arguments, r+cl atoms, one task per row
MPB_Adjacency(r, cl, nod) ==
  [kind |-> "MPB", label |-> "m", args |-> <<>>, shape |-> <<r, cl>>,
   ntasks |-> r, skip_ieqj |-> FALSE,
   isAdjacencyMatrix |-> TRUE, inChain |-> FALSE, natoms |-> r + cl, noderiv |-> nod,
   diagzero |-> FALSE, nmasks |-> 0, mask |-> <<>>, func |-> "product"]

RECURSIVE SortedSeq(_)
\* the elements of a set of numbers in increasing order
SortedSeq(S) ==
  IF S = {} THEN <<>>
  ELSE LET lo == CHOOSE x \in S : \A y \in S : x <= y
       IN <<lo>> \o SortedSeq(S \ {lo})

\* an OUTER_PRODUCT of two vectors; with a mask every row of the mask
\* holds the columns of cols
OP_Component(x, y, masked, cols, dz, fn, nod) ==
  [kind |-> "OP", label |-> "o", args |-> <<x, y>>,
   shape |-> <<getShape(x, 0), getShape(y, 0)>>,
   ntasks |-> getShape(x, 0), skip_ieqj |-> FALSE,
   isAdjacencyMatrix |-> FALSE, inChain |-> FALSE, natoms |-> 0, noderiv |-> nod,
   diagzero |-> dz, nmasks |-> IF masked THEN 1 ELSE 0,
   mask |-> IF masked THEN [r \in 1..getShape(x, 0) |-> SortedSeq(cols)] ELSE <<>>,
   func |-> fn]

OP_Components ==
  UNION {{OP_Component(p[1], p[2], FALSE, {}, dz, fn, nod) :
            dz \in BOOLEAN, fn \in {"min", "max", "product"}, nod \in BOOLEAN}
         \cup {OP_Component(p[1], p[2], TRUE, cols, dz, fn, nod) :
                 cols \in SUBSET (0..getShape(p[2], 0)-1),
                 dz \in BOOLEAN, fn \in {"min", "max", "product"}, nod \in BOOLEAN} :
         p \in {q \in ProductArgs : getRank(q[1]) = 1}}

getNumberOfDerivatives(c) ==
  IF c.kind = "MPB" THEN MPB_getNumberOfDerivatives(c) ELSE OP_getNumberOfDerivatives(c)

MPB_Components ==
  UNION {{MPB_Product(a, na, nod) :
            na \in {0, MatrixProductBase(a).shape[1] + MatrixProductBase(a).shape[2]},
            nod \in BOOLEAN} :
         a \in {b \in ProductArgs : MatrixProductBase(b).phase = "built"}}
  \cup {MPB_Adjacency(r, cl, nod) : r \in 1..MaxDim, cl \in 1..MaxDim, nod \in BOOLEAN}

\* ---------------------------------------------------------------------
\* Specification of the MultiValue API: any sequence of calls that
\* respects the debug assertions of MultiValue.h.
\* ---------------------------------------------------------------------
Vals == 0..NVals-1
Ders == 0..NDer-1
NoOp == [name |-> "resize", v |-> 0, j |-> 0, d |-> 0, asserted |-> FALSE]
Call(n, v, j, d) == [name |-> n, v |-> v, j |-> j, d |-> d, asserted |-> FALSE]

InitMV == /\ myvals = resize(NVals, NDer)
          /\ op = NoOp
          /\ ncalls = 0
          /\ args = <<>>
          /\ ctor = NotBuilt
          /\ NoRow /\ NoOther

\* one more call, while the budget of calls lasts
Tick == /\ ncalls < MaxCalls
        /\ ~myvals.fault
        /\ ncalls' = ncalls + 1
        /\ UNCHANGED <<ctorVars, rowVars, otherVars>>

MV_setValue ==
  \E v \in Vals, d \in 1..MaxDer :
    /\ Tick
    /\ myvals' = setValue(myvals, v, d)
    /\ op' = Call("setValue", v, 0, d)

MV_addValue ==
  \E v \in Vals, d \in 1..MaxDer :
    /\ Tick
    /\ get(myvals, v) + d <= MaxDer
    /\ myvals' = addValue(myvals, v, d)
    /\ op' = Call("addValue", v, 0, d)

MV_addDerivative ==
  \E v \in Vals, j \in Ders, d \in 1..MaxDer :
    /\ Tick
    /\ getDerivative(myvals, v, j) + d <= MaxDer
    /\ myvals' = addDerivative(myvals, v, j, d)
    /\ op' = Call("addDerivative", v, j, d)

MV_setDerivative ==
  \E v \in Vals, j \in Ders, d \in 0..MaxDer :
    /\ Tick
    /\ myvals' = setDerivative(myvals, v, j, d)
    /\ op' = Call("setDerivative", v, j, d)

MV_updateIndex ==
  \E v \in Vals, j \in Ders :
    /\ Tick
    /\ ~updateIndex(myvals, v, j).fault        \* the assertions hold
    /\ myvals' = updateIndex(myvals, v, j)
    /\ op' = Call("updateIndex", v, j, 0)

MV_clearActiveMembers ==
  \E v \in Vals :
    /\ Tick
    /\ myvals' = clearActiveMembers(myvals, v)
    /\ op' = Call("clearActiveMembers", v, 0, 0)

MV_clearDerivatives ==
  \E v \in Vals :
    /\ Tick
    /\ myvals' = clearDerivatives(myvals, v)
    /\ op' = Call("clearDerivatives", v, 0, 0)

MV_clear ==
  \E v \in Vals :
    /\ Tick
    /\ myvals' = clear(myvals, v)
    /\ op' = Call("clear", v, 0, 0)

MV_clearAll ==
  /\ Tick
  /\ myvals' = clearAll(myvals)
  /\ op' = Call("clearAll", 0, 0, 0)

NextMV == \/ MV_setValue \/ MV_addValue
          \/ MV_addDerivative \/ MV_setDerivative
          \/ MV_updateIndex
          \/ MV_clearActiveMembers \/ MV_clearDerivatives \/ MV_clear
          \/ MV_clearAll

\* ---------------------------------------------------------------------
\* Calls of the accessors with any index, in a debug build
\* ---------------------------------------------------------------------
ValueAccessors == {"get", "setValue", "addValue"}
DerivativeAccessors ==
  {"addDerivative", "setDerivative", "getDerivative", "updateIndex", "getActiveIndex"}

\* the condition of the plumed_dbg_assert at the head of each accessor
dbg_assert(name, mv, ival, jder) ==
  IF name \in ValueAccessors THEN ival <= Cardinality(DOMAIN mv.values)
  ELSE IF name \in {"addDerivative", "setDerivative"}
  THEN ival <= Cardinality(DOMAIN mv.values) /\ jder < mv.nderivatives
  ELSE IF name \in {"getDerivative", "updateIndex"}
  THEN ival < Cardinality(DOMAIN mv.values) /\ jder < mv.nderivatives
  ELSE jder < mv.nactive[ival]       \* getActiveIndex: ind<nactive[ival]

\* the outcomes of the assertion: getActiveIndex reads nactive[ival] in its
\* condition, which is itself outside the buffer when ival is
AssertionTrips(name, mv, ival, jder) ==
  IF name = "getActiveIndex" /\ ival \notin DOMAIN mv.nactive THEN BOOLEAN
  ELSE {~dbg_assert(name, mv, ival, jder)}

\* the indices lie inside what resize() allocated
InStorage(name, mv, ival, jder) ==
  /\ ival \in DOMAIN mv.values
  /\ name \in DerivativeAccessors => jder < mv.nderivatives

\* an accessor is called with an index outside the declared bounds: the
\* assertion aborts, or the access goes outside the buffers; either way
\* nothing is known about the MultiValue afterwards
MV_OutOfBounds ==
  \E name \in ValueAccessors \cup DerivativeAccessors,
     v \in 0..NVals+1, j \in 0..NDer :
    /\ Tick
    /\ name \in ValueAccessors => j = 0
    /\ ~InStorage(name, myvals, v, j)
    /\ \E trips \in AssertionTrips(name, myvals, v, j) :
         op' = [Call(name, v, j, 0) EXCEPT !.asserted = trips]
    /\ myvals' = Fault(myvals)

NextAssert == NextMV \/ MV_OutOfBounds

\* Specification of the construction of a MatrixProductBase on every ARG list
InitCtor == /\ myvals = resize(NVals, NDer)
            /\ op = NoOp
            /\ ncalls = 0
            /\ args \in ArgLists
            /\ ctor = NotBuilt
            /\ NoRow /\ NoOther

Construct == /\ ctor.phase = "new"
             /\ ctor' = MatrixProductBase(args)
             /\ UNCHANGED <<args, mvVars, rowVars, otherVars>>

NextCtor == Construct

\* Specification of the task loop of every matrix component
InitRow ==
  /\ op = NoOp /\ ncalls = 0 /\ ctor = NotBuilt /\ NoOther
  /\ act \in MPB_Components \cup OP_Components
  /\ args = act.args
  /\ \E rerun \in IF act.kind = "MPB" THEN BOOLEAN ELSE {FALSE} :
       myvals = [resize(1, getNumberOfDerivatives(act)) EXCEPT !.inMatrixRerun = rerun]
  /\ pc = "idle" /\ current = 0 /\ li = 0
  /\ out = [col \in 0..act.shape[2]-1 |-> 0]
  /\ evals = [col \in 0..act.shape[2]-1 |-> 0]
  /\ last = NoLast
  /\ jac = [col \in 0..act.shape[2]-1 |-> <<>>]
  /\ frc = [value |-> [col \in 0..act.shape[2]-1 |-> 0],
            \* forcesToApply still holds what an earlier apply() left in it
            forcesToApply |-> [q \in 0..getNumberOfDerivatives(act)-1 |-> 1],
            atoms |-> [q \in 0..3*getNumberOfAtoms(act)-1 |-> 0],
            virial |-> [q \in 0..8 |-> 0],
            arguments |-> [q \in 0..numberOfArgDerivatives(act)-1 |-> 0],
            applied |-> FALSE]

\* ---------------------------------------------------------------------
\* TransposeMatrix: forces on the output are passed to the argument
\* ---------------------------------------------------------------------

\* Value::getNumberOfValues
Value_getNumberOfValues(val) == getSize(val)

\* the shape of the output Value (TransposeMatrix::TransposeMatrix)
TransposeShape(arg) ==
  IF getRank(arg) = 1 THEN <<1, getShape(arg, 0)>>
  ELSE IF getShape(arg, 0) = 1 THEN <<getShape(arg, 1)>>
  ELSE <<getShape(arg, 1), getShape(arg, 0)>>

\* a TRANSPOSE of a vector or matrix, no force added yet
TransposeMatrix(arg, nod) ==
  [kind |-> "T", arg |-> arg, shape |-> TransposeShape(arg), noderiv |-> nod,
   force |-> [i \in 0..Value_getNumberOfValues(arg)-1 |-> 0], hasForce |-> FALSE,
   argforce |-> [i \in 0..Value_getNumberOfValues(arg)-1 |-> 0], applied |-> FALSE]

T_Components ==
  {TransposeMatrix(arg, nod) :
     arg \in PlainValues("a", 1) \cup PlainValues("a", 2), nod \in BOOLEAN}

\* Value::addForce
addForce(force, i, F) == [force EXCEPT ![i] = @ + F]

\* TransposeMatrix::getForceOnMatrixElement
getForceOnMatrixElement(t, jrow, kcol) == t.force[kcol*t.shape[2] + jrow]

\* MatrixOperationBase::apply: every element of the argument receives the
\* force getForceOnMatrixElement gives for it
MatrixOperationBase_apply(t) ==
  LET ncols == getShape(t.arg, 1) IN
  [t EXCEPT !.argforce =
     [i \in DOMAIN @ |-> @[i] + getForceOnMatrixElement(t, i \div ncols, i % ncols)]]

\* TransposeMatrix::apply
T_apply(t) ==
  IF t.noderiv THEN t
  ELSE IF t.hasForce     \* forcesWereAdded()
  THEN IF getRank(t.arg) <= 1 \/ Len(t.shape) = 1
       THEN [t EXCEPT !.argforce = [i \in DOMAIN @ |-> @[i] + t.force[i]]]
       ELSE MatrixOperationBase_apply(t)
  ELSE t

T_AddForce ==
  /\ tm.kind = "T" /\ ~tm.applied
  /\ Cardinality({i \in DOMAIN tm.force : tm.force[i] # 0}) < MaxDeposits
  /\ \E i \in DOMAIN tm.force, F \in 1..MaxForce :
       /\ tm.force[i] = 0
       /\ tm' = [tm EXCEPT !.force = addForce(@, i, F), !.hasForce = TRUE]
  /\ UNCHANGED <<mvVars, ctorVars, rowVars, par, sch, avg, vol>>

T_Apply ==
  /\ tm.kind = "T" /\ ~tm.applied
  /\ tm' = [T_apply(tm) EXCEPT !.applied = TRUE]
  /\ UNCHANGED <<mvVars, ctorVars, rowVars, par, sch, avg, vol>>

InitT ==
  /\ myvals = resize(NVals, NDer) /\ op = NoOp /\ ncalls = 0
  /\ args = <<>> /\ ctor = NotBuilt /\ NoRow
  /\ tm \in T_Components /\ par = NoPar /\ sch = NoSch /\ avg = NoAvg /\ vol = NoVol

\* ---------------------------------------------------------------------
\* runAllTasks with several threads: every thread has its own MultiValue,
\* runs row tasks on it and merges each row under a lock
\* ---------------------------------------------------------------------

\* the values the arguments deliver for element (row, col): pattern k
ElementInput(c, k, row, col) ==
  IF c.kind = "MPB"
  THEN [val |-> IF k = 0 THEN 1 ELSE IF k = 1 THEN 0 ELSE (row + col + k) % 2,
        atomder |-> getNumberOfAtoms(c) > 0 /\ (col + k) % 2 = 0]
  ELSE [x |-> 1 + ((row + k) % 2), y |-> 1 + ((col + (k \div 2)) % 2)]
Patterns == 0..2

\* what a row task leaves to be merged
RowResult(mv, o, j) ==
  [out |-> o, jac |-> j,
   matrix_indices |-> [q \in 1..getNumberOfMatrixIndices(mv) |-> mv.matrix_indices[q - 1]],
   matrix_row_derivative_indices |->
     [q \in 1..getNumberOfMatrixRowDerivatives(mv) |-> mv.matrix_row_derivative_indices[q - 1]]]

\* the one element of a set of one element
Only(S) == CHOOSE x \in S : TRUE

\* one pass of the element loop of performTask(current, myvals): element
\* i of the index list is evaluated by runTask, stored when it is not
\* zero, and the element's scratch is cleared
ElementStep(c, k, cur, i, r) ==
  IF i \notin DOMAIN getIndices(r.mv) THEN [r EXCEPT !.mv = Fault(@)]
  ELSE Only({ LET inRow == col \in DOMAIN r.out
              IN Only({ LET stored == e.ret /\ inRow /\ ~e.mv.fault
                        IN [mv |-> IF e.ret /\ ~inRow THEN Fault(e.mv)
                                   ELSE clearMatrixElements(c, e.mv),
                            out |-> IF stored THEN [r.out EXCEPT ![col] = get(e.mv, 0)]
                                    ELSE r.out,
                            jac |-> IF stored
                                    THEN [r.jac EXCEPT ![col] = ActiveDerivatives(e.mv, 0)]
                                    ELSE r.jac] :
                        e \in {runTask(c, c.label, getTaskIndex(r.mv), cur,
                                       getIndices(r.mv)[i], r.mv,
                                       ElementInput(c, k, cur, col))} }) :
              col \in {ColumnOf(c, getIndices(r.mv)[i])} })

RECURSIVE ElementLoop(_, _, _, _, _)
\* the element loop from position i on; r carries the MultiValue and the
\* row stored so far
ElementLoop(c, k, cur, i, r) ==
  IF r.mv.fault \/ i >= getSplitIndex(r.mv) THEN r
  ELSE Only({ ElementLoop(c, k, cur, i + 1, r1) : r1 \in {ElementStep(c, k, cur, i, r)} })

\* the jobs of performTask(current, myvals) after the element loop
EndOfRowJobs(c, cur, r) ==
  IF r.mv.fault THEN r
  ELSE [r EXCEPT !.mv =
          IF c.kind = "MPB"
          THEN IF ~doNotCalculateDerivatives(c)
               THEN updateCentralMatrixIndex(c, getTaskIndex(r.mv), r.mv) ELSE r.mv
          ELSE OP_runEndOfRowJobs(c, cur, r.mv)]

\* performTask(current, myvals) that does not ask whether the MultiValue is
\* in a vector call (a variant used to test the properties)
performTask_novectorcall(c, k, cur, mv) ==
  IF c.kind = "MPB" /\ ~c.isAdjacencyMatrix /\ c.inChain
  THEN LET mv0 == setTaskIndex(mv, cur) IN
       [mv |-> IF ~doNotCalculateDerivatives(c)
               THEN updateCentralMatrixIndex(c, getTaskIndex(mv0), mv0) ELSE mv0,
        out |-> [col \in 0..c.shape[2]-1 |-> 0],
        jac |-> [col \in 0..c.shape[2]-1 |-> <<>>]]
  ELSE
  Only({ Only({ EndOfRowJobs(c, cur, r) :
                r \in {ElementLoop(c, k, cur, 1,
                         [mv |-> mv1, out |-> [col \in 0..c.shape[2]-1 |-> 0],
                          jac |-> [col \in 0..c.shape[2]-1 |-> <<>>]])} }) :
         mv1 \in {IF c.kind = "MPB" THEN MPB_setupForTask(c, cur, setTaskIndex(mv, cur))
                  ELSE OP_setupForTask(c, cur, setTaskIndex(mv, cur))} })

\* performTask(current, myvals) of the component, the whole row; a
\* MatrixProductBase that is not an adjacency matrix and is in a chain has
\* its elements computed in the loop of the action it follows
performTask(c, k, cur, mv) ==
  IF c.kind = "MPB" /\ ~c.isAdjacencyMatrix /\ c.inChain
  THEN LET mv0 == setTaskIndex(mv, cur) IN
       [mv |-> IF ~doNotCalculateDerivatives(c) /\ inVectorCall(mv0)
               THEN updateCentralMatrixIndex(c, getTaskIndex(mv0), mv0) ELSE mv0,
        out |-> [col \in 0..c.shape[2]-1 |-> 0],
        jac |-> [col \in 0..c.shape[2]-1 |-> <<>>]]
  ELSE
  Only({ Only({ EndOfRowJobs(c, cur, r) :
                r \in {ElementLoop(c, k, cur, 1,
                         [mv |-> mv1, out |-> [col \in 0..c.shape[2]-1 |-> 0],
                          jac |-> [col \in 0..c.shape[2]-1 |-> <<>>]])} }) :
         mv1 \in {IF c.kind = "MPB" THEN MPB_setupForTask(c, cur, setTaskIndex(mv, cur))
                  ELSE OP_setupForTask(c, cur, setTaskIndex(mv, cur))} })

NoResult == [out |-> <<>>]
Idle == [row |-> 0, busy |-> FALSE, result |-> NoResult]

InitPar ==
  /\ myvals = resize(NVals, NDer) /\ op = NoOp /\ ncalls = 0
  /\ args = <<>> /\ ctor = NotBuilt /\ NoRow /\ tm = NoTm /\ sch = NoSch /\ avg = NoAvg /\ vol = NoVol
  /\ \E c \in MPB_Components \cup OP_Components, k \in Patterns :
       par = [kind |-> "tasks", act |-> c, pattern |-> k,
              todo |-> 0..getFullNumberOfTasks(c)-1,
              myvals |-> [t \in 1..NThreads |-> resize(1, getNumberOfDerivatives(c))],
              thread |-> [t \in 1..NThreads |-> Idle],
              merged |-> [row \in 0..getFullNumberOfTasks(c)-1 |-> NoResult],
              aborted |-> FALSE]

\* a thread takes a task that is still to do and runs it on its own
\* MultiValue
P_performTask ==
  /\ par.kind = "tasks" /\ ~par.aborted
  /\ \E t \in 1..NThreads, row \in par.todo :
       /\ ~par.thread[t].busy
       /\ \E r \in {performTask(par.act, par.pattern, row, par.myvals[t])} :
            par' = [par EXCEPT !.todo = @ \ {row},
                                !.myvals[t] = r.mv,
                                !.aborted = r.mv.fault,
                                !.thread[t] = [row |-> row, busy |-> ~r.mv.fault,
                                               result |-> RowResult(r.mv, r.out, r.jac)]]
  /\ UNCHANGED <<mvVars, ctorVars, rowVars, tm, sch, avg, vol>>

\* under the lock the thread merges its row into the output and resets
\* its MultiValue
P_merge ==
  /\ par.kind = "tasks" /\ ~par.aborted
  /\ \E t \in 1..NThreads :
       /\ par.thread[t].busy
       /\ par' = [par EXCEPT !.merged[par.thread[t].row] = par.thread[t].result,
                             !.myvals[t] = clearAll(@),
                             !.thread[t] = Idle]
  /\ UNCHANGED <<mvVars, ctorVars, rowVars, tm, sch, avg, vol>>

NextPar == P_performTask \/ P_merge

\* ---------------------------------------------------------------------
\* calculate(), update() and runFinalJobs() of a MatrixProductBase as the
\* driver calls them
\* ---------------------------------------------------------------------

\* the state of the component the three methods read: whether it is in a
\* chain, what skipCalculate() and skipUpdate() answer, its task counts,
\* and whether the build keeps plumed_dbg_assert
Scheduled ==
  [kind : {"sched"}, actionInChain : BOOLEAN, skipCalculate : BOOLEAN,
   skipUpdate : BOOLEAN, debug : BOOLEAN,
   ntasks : 0..MaxDim, nfinal : 0..MaxDim,
   calls : {0}, last : {"none"}, started : {FALSE}, asserted : {FALSE}]

\* the record after a call of method m that did or did not reach
\* runAllTasks(), or stopped at the assertion
Called(a, m, runs, trips) ==
  [a EXCEPT !.calls = @ + 1, !.last = m, !.started = runs, !.asserted = trips]

\* MatrixProductBase::calculate
calculate(a) ==
  IF a.actionInChain \/ a.skipCalculate THEN Called(a, "calculate", FALSE, FALSE)
  ELSE Called(a, "calculate", TRUE, FALSE)

\* plumed_dbg_assert( !actionInChain() ): stops the method in a build
\* that keeps debug assertions, is not compiled otherwise
dbg_assert_notInChain(a) == a.debug /\ a.actionInChain

\* MatrixProductBase::update
update(a) ==
  IF a.skipUpdate THEN Called(a, "update", FALSE, FALSE)
  ELSE IF dbg_assert_notInChain(a) THEN Called(a, "update", FALSE, TRUE)
  ELSE Called(a, "update", getFullNumberOfTasks(a) > 0, FALSE)

\* MatrixProductBase::runFinalJobs; resizeForFinalTasks() makes the task
\* list as long as getNumberOfFinalTasks()
runFinalJobs(a) ==
  IF a.skipUpdate THEN Called(a, "runFinalJobs", FALSE, FALSE)
  ELSE IF dbg_assert_notInChain(a) THEN Called(a, "runFinalJobs", FALSE, TRUE)
  ELSE Called([a EXCEPT !.ntasks = a.nfinal], "runFinalJobs", TRUE, FALSE)

InitSch ==
  /\ myvals = resize(NVals, NDer) /\ op = NoOp /\ ncalls = 0
  /\ args = <<>> /\ ctor = NotBuilt /\ NoRow /\ tm = NoTm /\ par = NoPar /\ avg = NoAvg /\ vol = NoVol
  /\ sch \in Scheduled

\* the driver calls a method unless an assertion has stopped the program
CanCall == sch.kind = "sched" /\ sch.calls < MaxSteps /\ ~sch.asserted

S_calculate == /\ CanCall /\ sch' = calculate(sch)
               /\ UNCHANGED <<mvVars, ctorVars, rowVars, tm, par, avg, vol>>

S_update == /\ CanCall /\ sch' = update(sch)
            /\ UNCHANGED <<mvVars, ctorVars, rowVars, tm, par, avg, vol>>

S_runFinalJobs == /\ CanCall /\ sch' = runFinalJobs(sch)
                  /\ UNCHANGED <<mvVars, ctorVars, rowVars, tm, par, avg, vol>>

NextSch == S_calculate \/ S_update \/ S_runFinalJobs

\* ---------------------------------------------------------------------
\* AverageBase: STRIDE, CLEAR and the accumulation in update()
\* ---------------------------------------------------------------------

\* an output Value: its elements (for a grid the derivatives follow the
\* value) and its normalization
Value(len) == [data |-> [i \in 0..len-1 |-> 0], norm |-> 0]
Value_set(v, i, x) == [v EXCEPT !.data[i] = x]
Value_add(v, i, x) == [v EXCEPT !.data[i] = @ + x]
Value_setNorm(v, x) == [v EXCEPT !.norm = x]
\* Value::clearDerivatives: zeroes what follows the first element
Value_clearDerivatives(v) ==
  [v EXCEPT !.data = [i \in DOMAIN v.data |-> IF i = 0 THEN v.data[0] ELSE 0]]

Normalizations == {"true", "false", "ndata"}

\* AverageBase::AverageBase and Average::Average: CLEAR is read and tested
\* against STRIDE, NORMALIZATION sets clearnorm
AverageBase(stride, clr, normstr, len) ==
  IF clr > 0 /\ clr % stride # 0
  THEN [kind |-> "error", msg |-> "CLEAR parameter must be a multiple of STRIDE",
        stride |-> stride, clearstride |-> clr]
  ELSE [kind |-> "avg", stride |-> stride, clearstride |-> clr,
        normalization |-> normstr, clearnorm |-> normstr # "false",
        clearnextstep |-> FALSE, firststep |-> TRUE,
        out |-> Value(len), step |-> 0,
        samples |-> <<>>, resets |-> 0, didReset |-> FALSE, accumulated |-> FALSE]

\* ActionPilot::onStep
onStep(a) == a.step % a.stride = 0

\* the test of update() that decides whether this step accumulates
Accumulates(a) == ~((a.clearstride # 1 /\ a.step = 0) \/ ~onStep(a))

\* Average::accumulateNorm with weights all equal to one
accumulateNorm(a) ==
  IF a.normalization \in {"true", "ndata"}
  THEN [a EXCEPT !.out = Value_setNorm(@, @.norm + 1)] ELSE a

\* Average::accumulateValue for a scalar, Average::accumulateGrid for a
\* grid, of a non-periodic argument whose elements all hold x
accumulateData(a, x) ==
  LET RECURSIVE AddFrom(_, _)
      AddFrom(v, i) == IF i \notin DOMAIN v.data THEN v
                       ELSE AddFrom(Value_add(v, i, x), i + 1)
  IN [a EXCEPT !.out = AddFrom(@, 0)]

\* the block of update() taken when clearnextstep is set
clearAccumulated(a) ==
  LET v1 == Value_set(Value_clearDerivatives(a.out), 0, 0)
      v2 == IF a.clearnorm THEN Value_setNorm(v1, 0) ELSE v1
  IN [a EXCEPT !.out = v2, !.clearnextstep = FALSE]

\* the block of update() that keeps the values but not the normalization
\* (a variant used to test the properties)
AverageBase_update_keepnorm(a, x) ==
  LET a0 == [a EXCEPT !.firststep = FALSE]
  IN IF ~Accumulates(a0) THEN a0
     ELSE LET a1 == IF a0.clearnextstep
                    THEN [a0 EXCEPT !.out = Value_set(Value_clearDerivatives(@), 0, 0),
                                    !.clearnextstep = FALSE]
                    ELSE a0
              a2 == accumulateData(accumulateNorm(a1), x)
          IN IF a2.clearstride > 0 /\ a2.step % a2.clearstride = 0
             THEN [a2 EXCEPT !.clearnextstep = TRUE] ELSE a2

\* AverageBase::update at step a.step, the argument holding x
AverageBase_update(a, x) ==
  LET a0 == [a EXCEPT !.firststep = FALSE]
  IN IF ~Accumulates(a0) THEN a0
     ELSE LET a1 == IF a0.clearnextstep THEN clearAccumulated(a0) ELSE a0
              a2 == accumulateData(accumulateNorm(a1), x)
          IN IF a2.clearstride > 0 /\ a2.step % a2.clearstride = 0
             THEN [a2 EXCEPT !.clearnextstep = TRUE] ELSE a2

InitAvg ==
  /\ myvals = resize(NVals, NDer) /\ op = NoOp /\ ncalls = 0
  /\ args = <<>> /\ ctor = NotBuilt /\ NoRow /\ tm = NoTm /\ par = NoPar /\ sch = NoSch /\ vol = NoVol
  /\ \E stride \in 1..MaxStride, clr \in 0..MaxClear,
        normstr \in Normalizations, len \in 1..MaxDim :
       avg = AverageBase(stride, clr, normstr, len)

\* the driver calls update() at the current step and moves to the next
\* step; the record keeps the samples that were accumulated and whether
\* this update reset the output
A_update ==
  /\ avg.kind = "avg" /\ avg.step <= MaxTime
  /\ \E x \in 1..MaxSample :
       LET a == AverageBase_update(avg, x)
           acc == Accumulates(avg)
       IN avg' = [a EXCEPT !.step = @ + 1,
                           !.accumulated = acc,
                           !.didReset = acc /\ avg.clearnextstep,
                           !.resets = IF acc /\ avg.clearnextstep THEN @ + 1 ELSE @,
                           !.samples = IF acc THEN Append(@, <<avg.step, x>>) ELSE @]
  /\ UNCHANGED <<mvVars, ctorVars, rowVars, tm, par, sch, vol>>

NextAvg == A_update

\* ---------------------------------------------------------------------
\* ActionVolume: NL_STRIDE, prepare() and the contributors' lock
\* ---------------------------------------------------------------------

\* ActionWithVessel::unlockContributors and lockContributors
unlockContributors(w) == [w EXCEPT !.contributorsAreUnlocked = TRUE]
lockContributors(w) == [w EXCEPT !.contributorsAreUnlocked = FALSE]

\* ActionVolume::ActionVolume: NL_STRIDE is read into updateFreq and
\* tested against the base multicolvar's, lastUpdate starts at 0
ActionVolume(nl_stride, mycolv, unlocked) ==
  IF nl_stride > 0 /\ ~mycolv.isDensity /\ nl_stride % mycolv.updateFreq # 0
  THEN [kind |-> "error",
        msg |-> "update frequency must be a multiple of update frequency for base multicolvar"]
  ELSE [kind |-> "vol", updateFreq |-> nl_stride, lastUpdate |-> 0,
        contributorsAreUnlocked |-> unlocked, mycolv |-> mycolv,
        step |-> 0, error |-> "", called |-> "none", rebuilt |-> FALSE, at |-> 0,
        rebuilds |-> <<>>, before |-> mycolv]

\* the base multicolvars: density or not, their own update frequency,
\* their lock and the tasks they have deactivated
BaseColvars ==
  [isDensity : BOOLEAN, updateFreq : 1..MaxFreq, contributorsAreUnlocked : BOOLEAN,
   inactive : {{}}]

\* ActionVolume::prepare at step v.step
prepare(v) ==
  LET v1 == IF v.contributorsAreUnlocked THEN lockContributors(v) ELSE v
  IN IF v1.updateFreq > 0 /\ (v1.step - v1.lastUpdate) >= v1.updateFreq
     THEN IF ~v1.mycolv.isDensity
          THEN unlockContributors(
                 [v1 EXCEPT !.mycolv = unlockContributors([@ EXCEPT !.inactive = {}]),
                            !.rebuilt = TRUE])
          ELSE IF ~v1.mycolv.contributorsAreUnlocked
               THEN [v1 EXCEPT !.error = "contributors are not unlocked in base multicolvar"]
               ELSE unlockContributors([v1 EXCEPT !.rebuilt = TRUE])
     ELSE v1

\* ActionVolume::deactivate_task
deactivate_task(v) == [v EXCEPT !.error = "This should never be called"]

InitVol ==
  /\ myvals = resize(NVals, NDer) /\ op = NoOp /\ ncalls = 0
  /\ args = <<>> /\ ctor = NotBuilt /\ NoRow
  /\ tm = NoTm /\ par = NoPar /\ sch = NoSch /\ avg = NoAvg
  /\ \E n \in 1..MaxFreq, b \in BaseColvars, u \in BOOLEAN :
       vol = ActionVolume(n, b, u)

Running == vol.kind = "vol" /\ vol.error = ""

\* the driver calls prepare() at the current step and moves on to the
\* next step; the record keeps the steps at which prepare() rebuilt
V_prepare ==
  /\ Running /\ vol.step <= MaxTime
  /\ LET v == prepare([vol EXCEPT !.rebuilt = FALSE])
     IN vol' = [v EXCEPT !.step = @ + 1, !.at = vol.step, !.before = vol.mycolv,
                         !.called = "prepare",
                         !.rebuilds = IF v.rebuilt THEN Append(@, vol.step) ELSE @]
  /\ UNCHANGED <<mvVars, ctorVars, rowVars, tm, par, sch, avg>>

\* the base multicolvar deactivates one of its tasks while its
\* contributors are unlocked
B_deactivate_task ==
  /\ Running /\ vol.mycolv.contributorsAreUnlocked
  /\ \E i \in (0..NTasks-1) \ vol.mycolv.inactive :
       vol' = [vol EXCEPT !.mycolv.inactive = @ \cup {i}, !.called = "base"]
  /\ UNCHANGED <<mvVars, ctorVars, rowVars, tm, par, sch, avg>>

\* the base multicolvar locks its contributors
B_lockContributors ==
  /\ Running /\ vol.mycolv.contributorsAreUnlocked
  /\ vol' = [vol EXCEPT !.mycolv = lockContributors(@), !.called = "base"]
  /\ UNCHANGED <<mvVars, ctorVars, rowVars, tm, par, sch, avg>>

\* a task of the volume itself is deactivated
V_deactivate_task ==
  /\ Running
  /\ vol' = [deactivate_task(vol) EXCEPT !.called = "deactivate_task"]
  /\ UNCHANGED <<mvVars, ctorVars, rowVars, tm, par, sch, avg>>

NextVol == V_prepare \/ B_deactivate_task \/ B_lockContributors \/ V_deactivate_task

\* ---------------------------------------------------------------------
\* A MatrixProductBase in a chain: the action it follows ("u") runs the
\* element loop and its runTask calls performTask(controller,...) of
\* every member of the chain; the row-level performTask(current, myvals)
\* of the component is called after that loop
\* ---------------------------------------------------------------------
ChainComponents == {[c EXCEPT !.inChain = TRUE] : c \in MPB_Components}

\* no performTask of the component was called yet
NoCall ==
  [kind |-> "none", controller |-> "", row |-> 0, index2 |-> 0, ret |-> FALSE,
   computed |-> FALSE, before |-> resize(0, 0), after |-> resize(0, 0)]

InitChain ==
  /\ op = NoOp /\ ncalls = 0 /\ ctor = NotBuilt /\ NoOther
  /\ act \in ChainComponents
  /\ args = act.args
  /\ \E vc \in BOOLEAN, sz \in 0..1 :
       myvals = [resize(1, getNumberOfDerivatives(act))
                   EXCEPT !.vector_call = vc, !.matrix_force_stash_size = sz]
  /\ pc = "idle" /\ current = 0 /\ li = 0
  /\ out = [col \in 0..act.shape[2]-1 |-> 0]
  /\ evals = [col \in 0..act.shape[2]-1 |-> 0]
  /\ last = NoCall
  /\ jac = [col \in 0..act.shape[2]-1 |-> <<>>]
  /\ frc = NoFrc

\* one pass of the element loop of the action the component follows:
\* runTask("u", ...) reaches performTask("u", index1, index2, myvals) of
\* the component, then the element held in the stream is cleared
U_runTask ==
  /\ pc = "idle" /\ current < getFullNumberOfTasks(act) /\ li < act.shape[2]
  \* the elements met in the stream are those without atomic derivatives
  /\ \E inp \in {i \in Inputs(act) : ~i.atomder} :
       LET index2 == getFullNumberOfTasks(act) + li
           mv1 == setSecondTaskIndex(setTaskIndex(myvals, current), index2)
           r == runTask(act, "u", current, current, index2, myvals, inp)
       IN /\ myvals' = clearMatrixElements(act, r.mv)
          /\ last' = [kind |-> "element", controller |-> "u", row |-> current,
                      index2 |-> index2, ret |-> r.ret, computed |-> r.computed,
                      before |-> mv1, after |-> r.mv]
  /\ li' = li + 1
  /\ pc' = NextPc(myvals', "idle")
  /\ UNCHANGED <<act, current, out, evals, jac, frc, op, ncalls, ctorVars, otherVars>>

\* the row-level performTask(current, myvals) of the component, reached
\* when the element loop of the action it follows has gone over the row
Chain_performTask ==
  /\ pc = "idle" /\ current < getFullNumberOfTasks(act) /\ li = act.shape[2]
  /\ \E k \in Patterns :
       \E r \in {performTask(act, k, current, myvals)} :
          /\ myvals' = r.mv
          /\ last' = [kind |-> "row", controller |-> act.label, row |-> current,
                      index2 |-> 0, ret |-> FALSE, computed |-> FALSE,
                      before |-> setTaskIndex(myvals, current), after |-> r.mv]
  /\ li' = 0
  /\ pc' = NextPc(myvals', "rowdone")
  /\ UNCHANGED <<act, current, out, evals, jac, frc, op, ncalls, ctorVars, otherVars>>

NextChain == U_runTask \/ Chain_performTask \/ NextTask

\* ---------------------------------------------------------------------
\* MultiColvarTemplate: one task per ATOMSi list, the derivatives of every
\* component are transferred to the MultiValue
\* ---------------------------------------------------------------------

\* the ATOMS1, ATOMS2, ... lists as CV::parseAtomList returns them: the
\* same number of atom serials in each (another length is an error of the
\* constructor, line 184); the list of task i is the first list with every
\* serial advanced by i-1
AtomLists ==
  {[i \in 1..NTasks |-> [j \in DOMAIN first |-> ((first[j] + i - 2) % MaxSerial) + 1]] :
     first \in UNION {[1..nb -> 1..MaxSerial] : nb \in 1..MaxBlocks}}

\* MultiColvarTemplate::MultiColvarTemplate: block j of task i-1 holds the
\* position nb*(i-1)+j of the atom in all_atoms, and all the atoms of the
\* lists are requested in that order
MultiColvarTemplate(lists, ncomp, nod) ==
  LET nb == Len(lists[1]) IN
  [kind |-> "MCV", label |-> "c",
   ablocks |-> [j \in 0..nb-1 |-> [i \in 1..Len(lists) |-> nb*(i - 1) + j]],
   all_atoms |-> [p \in 0..nb*Len(lists)-1 |-> lists[(p \div nb) + 1][(p % nb) + 1]],
   natoms |-> nb*Len(lists), ntasks |-> Len(lists),
   ncomponents |-> ncomp, noderiv |-> nod]

MCV_getNumberOfDerivatives(c) == 3*getNumberOfAtoms(c) + 9

\* what CV::calculateCV returns for pattern k: the value of every
\* component, its derivative with respect to the atom of block i (the same
\* for the three directions) and the elements of its virial
CVOutput(c, k) ==
  [value |-> 1 + k, deriv |-> [i \in DOMAIN c.ablocks |-> i + k], virial |-> k]

RECURSIVE MCV_setValues(_, _, _, _)
\* for(i<values.size()) myvals.setValue( i, values[i] ), from i on
MCV_setValues(c, mv, i, cv) ==
  IF i >= c.ncomponents THEN mv
  ELSE MCV_setValues(c, setValue(mv, i, cv.value), i + 1, cv)

RECURSIVE MCV_addAtom(_, _, _, _, _)
\* the three addDerivative calls of every component, from component j on
MCV_addAtom(c, mv, j, base, der) ==
  IF j >= c.ncomponents THEN mv
  ELSE Only({ MCV_addAtom(c, m, j + 1, base, der) :
               m \in {addDerivativeAll(mv, j, Run(base, 3), der)} })

RECURSIVE MCV_updateAtom(_, _, _, _)
\* the three updateIndex calls of every component, from component j on
MCV_updateAtom(c, mv, j, base) ==
  IF j >= c.ncomponents THEN mv
  ELSE Only({ MCV_updateAtom(c, m, j + 1, base) :
               m \in {updateIndexAll(mv, j, Run(base, 3))} })

RECURSIVE MCV_blocks(_, _, _, _, _)
\* the loop over the blocks from block i on: the derivatives are added
\* for every block, the indices are registered unless an earlier block of
\* the task holds the same atom
MCV_blocks(c, task_index, i, mv, cv) ==
  IF i \notin DOMAIN c.ablocks THEN mv
  ELSE LET base == 3*c.ablocks[i][task_index + 1]
           newi == \A j \in 0..i-1 :
                     c.ablocks[j][task_index + 1] # c.ablocks[i][task_index + 1]
       IN Only({ MCV_blocks(c, task_index, i + 1, m, cv) :
                 m \in {IF newi
                        THEN MCV_updateAtom(c, MCV_addAtom(c, mv, 0, base, cv.deriv[i]), 0, base)
                        ELSE MCV_addAtom(c, mv, 0, base, cv.deriv[i])} })

RECURSIVE MCV_virial_unregistered(_, _, _, _, _)
\* the virial loop without updateIndex (a variant used to test the
\* properties)
MCV_virial_unregistered(c, mv, j, q, cv) ==
  IF j >= c.ncomponents THEN mv
  ELSE IF q >= 9 THEN MCV_virial_unregistered(c, mv, j + 1, 0, cv)
  ELSE Only({ MCV_virial_unregistered(c, m, j, q + 1, cv) :
               m \in {addDerivative(mv, j, 3*getNumberOfAtoms(c) + q, cv.virial)} })

RECURSIVE MCV_virial(_, _, _, _, _)
\* the loops over the components and the nine virial elements, from
\* element q of component j on
MCV_virial(c, mv, j, q, cv) ==
  IF j >= c.ncomponents THEN mv
  ELSE IF q >= 9 THEN MCV_virial(c, mv, j + 1, 0, cv)
  ELSE Only({ MCV_virial(c, m, j, q + 1, cv) :
               m \in {updateIndex(addDerivative(mv, j, 3*getNumberOfAtoms(c) + q, cv.virial),
                                  j, 3*getNumberOfAtoms(c) + q)} })

\* MultiColvarTemplate::performTask
MCV_performTask(c, task_index, mv, cv) ==
  IF doNotCalculateDerivatives(c) THEN MCV_setValues(c, mv, 0, cv)
  ELSE MCV_virial(c, MCV_blocks(c, task_index, 0, MCV_setValues(c, mv, 0, cv), cv), 0, 0, cv)

InitMCV ==
  /\ op = NoOp /\ ncalls = 0 /\ ctor = NotBuilt /\ NoOther
  /\ args = <<>>
  /\ \E lists \in AtomLists, ncomp \in 1..NVals, nod \in BOOLEAN :
       act = MultiColvarTemplate(lists, ncomp, nod)
  /\ myvals = resize(act.ncomponents, MCV_getNumberOfDerivatives(act))
  /\ pc = "idle" /\ current = 0 /\ li = 0
  /\ out = <<>> /\ evals = <<>> /\ jac = <<>> /\ frc = NoFrc
  /\ last = NoCall

\* runAllTasks calls performTask(task_index, myvals) for the next task
M_performTask ==
  /\ act.kind = "MCV" /\ pc = "idle" /\ current < getFullNumberOfTasks(act)
  /\ \E k \in 0..1 :
       \E r \in {MCV_performTask(act, current, myvals, CVOutput(act, k))} :
          /\ myvals' = r
          /\ last' = [kind |-> "task", controller |-> act.label, row |-> current,
                      index2 |-> k, ret |-> TRUE, computed |-> TRUE,
                      before |-> myvals, after |-> r]
  /\ pc' = NextPc(myvals', "rowdone")
  /\ UNCHANGED <<act, current, li, out, evals, jac, frc, op, ncalls, ctorVars, otherVars>>

\* the values are gathered and the MultiValue is cleared for the next task
M_nextTask ==
  /\ act.kind = "MCV" /\ pc = "rowdone"
  /\ myvals' = clearAll(myvals)
  /\ current' = current + 1
  /\ last' = NoCall
  /\ pc' = IF current + 1 < getFullNumberOfTasks(act) THEN "idle" ELSE "alldone"
  /\ UNCHANGED <<act, li, out, evals, jac, frc, op, ncalls, ctorVars, otherVars>>

NextMCV == M_performTask \/ M_nextTask

\* ---------------------------------------------------------------------
\* TransposeMatrix::calculate over the steps of a run: the argument is
\* recomputed on every step, then the transpose is calculated
\* ---------------------------------------------------------------------

\* the data a Value of the given shape can hold (row-major), every element
\* zero or not
DataOf(val) == [0..getSize(val)-1 -> 0..1]

\* Value::isSymmetric of a square matrix whose data is symmetric
SymmetricData(val, d) ==
  /\ getRank(val) = 2 /\ getShape(val, 0) = getShape(val, 1)
  /\ \A i, j \in 0..getShape(val, 0)-1 :
       d[i*getShape(val, 1) + j] = d[j*getShape(val, 1) + i]

\* Value::retrieveEdgeList: the positions of the elements of the matrix
\* that are not zero, in row-major order (pairs[e] = <<p \div ncols,
\* p % ncols>>, vals[e] = data[p])
retrieveEdgeList(d) == SortedSeq({p \in DOMAIN d : d[p] # 0})

RECURSIVE setEdges(_, _, _, _, _)
\* for(i<nedge) myval->set( pairs[i].second*shape[1] + pairs[i].first, vals[i] ),
\* or with first and second exchanged, from edge e on
setEdges(t, d, output, edges, swapped) ==
  IF edges = <<>> THEN output
  ELSE LET first == Head(edges) \div getShape(t.arg, 1)
           second == Head(edges) % getShape(t.arg, 1)
           target == IF swapped THEN first*t.shape[2] + second
                     ELSE second*t.shape[2] + first
       IN setEdges(t, d, [output EXCEPT ![target] = d[Head(edges)]], Tail(edges), swapped)

\* TransposeMatrix::calculate: d is the data of the argument, output the
\* data the component holds from the step before
T_calculate(t, sym, d, output) ==
  IF getRank(t.arg) <= 1 \/ Len(t.shape) = 1
  THEN [i \in DOMAIN output |-> d[i]]
  ELSE LET o1 == setEdges(t, d, output, retrieveEdgeList(d), FALSE)
       IN IF sym THEN setEdges(t, d, o1, retrieveEdgeList(d), TRUE) ELSE o1

\* after construction: the data store of the output is built and holds
\* zeros; the argument holds the data of the first step
InitTr ==
  /\ myvals = resize(NVals, NDer) /\ op = NoOp /\ ncalls = 0
  /\ args = <<>> /\ ctor = NotBuilt /\ NoRow
  /\ par = NoPar /\ sch = NoSch /\ avg = NoAvg /\ vol = NoVol
  /\ \E t \in T_Components, sym \in BOOLEAN :
       \E d \in DataOf(t.arg) :
          /\ sym => SymmetricData(t.arg, d)
          /\ tm = [kind |-> "steps", t |-> t, symmetric |-> sym, input |-> d,
                   output |-> [i \in DOMAIN d |-> 0], step |-> 1, calculated |-> FALSE]

\* calculate() of the step
Tr_calculate ==
  /\ tm.kind = "steps" /\ ~tm.calculated
  /\ tm' = [tm EXCEPT !.output = T_calculate(tm.t, tm.symmetric, tm.input, @),
                      !.calculated = TRUE]
  /\ UNCHANGED <<mvVars, ctorVars, rowVars, par, sch, avg, vol>>

\* the next step: the action that computes the argument has run again
Tr_nextStep ==
  /\ tm.kind = "steps" /\ tm.calculated /\ tm.step < MaxSteps
  /\ \E d \in DataOf(tm.t.arg) :
       /\ tm.symmetric => SymmetricData(tm.t.arg, d)
       /\ tm' = [tm EXCEPT !.input = d, !.step = @ + 1, !.calculated = FALSE]
  /\ UNCHANGED <<mvVars, ctorVars, rowVars, par, sch, avg, vol>>

NextTr == Tr_calculate \/ Tr_nextStep

\* apply() of the matrix components and of TransposeMatrix
InitApply == InitRow \/ InitT
NextApply == NextRow \/ T_AddForce \/ T_Apply

vars == <<myvals, op, ncalls, args, ctor, act, pc, current, li, out, evals, last, jac, frc, tm, par, sch, avg, vol>>

SpecMV == InitMV /\ [][NextMV]_vars

SpecAssert == InitMV /\ [][NextAssert]_vars

SpecCtor == InitCtor /\ [][NextCtor]_vars

SpecRow == InitRow /\ [][NextRow]_vars

SpecApply == InitApply /\ [][NextApply]_vars

SpecPar == InitPar /\ [][NextPar]_vars

SpecSch == InitSch /\ [][NextSch]_vars

SpecAvg == InitAvg /\ [][NextAvg]_vars

SpecVol == InitVol /\ [][NextVol]_vars

SpecChain == InitChain /\ [][NextChain]_vars

SpecMCV == InitMCV /\ [][NextMCV]_vars

SpecTr == InitTr /\ [][NextTr]_vars

\* ---------------------------------------------------------------------
\* Properties of the MultiValue API (checked under SpecMV)
\* ---------------------------------------------------------------------
Slot(v, j) == myvals.nderivatives*v + j
NoDuplicates(sq) == \A p, q \in DOMAIN sq : p # q => sq[p] # sq[q]
IsClear(name) == name \in {"clearAll", "clearDerivatives", "clear"}

\* C1: the active-index list of every value holds no index twice and
\* holds only indices whose has-derivative flag is set.
C1_ActiveListInv ==
  \A v \in Vals :
    /\ NoDuplicates(ActiveSeq(myvals, v))
    /\ \A p \in DOMAIN ActiveSeq(myvals, v) :
         myvals.hasderiv[Slot(v, ActiveSeq(myvals, v)[p])]

\* C7: updateIndex(v,j) on a slot with no derivative written changes
\* nothing in the MultiValue.
C7_UpdateUnwrittenIsNoOp ==
  [][(op'.name = "updateIndex" /\ ~myvals.hasderiv[Slot(op'.v, op'.j)])
       => myvals' = myvals]_vars

C7_Witness ==
  /\ op.name = "updateIndex"
  /\ ~myvals.hasderiv[Slot(op.v, op.j)]
  /\ myvals.atLeastOneSet
  /\ \E j \in Ders : myvals.hasderiv[Slot(op.v, j)]

\* C8: addDerivative(v,j,der) adds der to the derivative at (v,j) and sets
\* its flag; every other derivative and flag, every active count and every
\* active list stay as they were.
C8_AddDerivativeFrame ==
  [][op'.name = "addDerivative" =>
       LET k == Slot(op'.v, op'.j) IN
       /\ myvals'.derivatives[k] = myvals.derivatives[k] + op'.d
       /\ myvals'.hasderiv[k]
       /\ \A q \in DOMAIN myvals.derivatives \ {k} :
            /\ myvals'.derivatives[q] = myvals.derivatives[q]
            /\ myvals'.hasderiv[q] = myvals.hasderiv[q]
       /\ myvals'.nactive = myvals.nactive
       /\ myvals'.active_list = myvals.active_list
       /\ myvals'.values = myvals.values]_vars

\* two contributions of 1 summed in a slot that is not active
C8_Witness ==
  /\ op.name = "addDerivative" /\ op.d = 1
  /\ myvals.derivatives[Slot(op.v, op.j)] = 2
  /\ myvals.nactive[op.v] = 0

\* what every query of a MultiValue returns right after resize
QueriesAsFresh(mv, v) ==
  /\ get(mv, v) = 0
  /\ \A j \in Ders : getDerivative(mv, v, j) = 0 /\ ~mv.hasderiv[mv.nderivatives*v + j]
  /\ getNumberActive(mv, v) = 0

RejectedArgs(a) ==
  \/ Len(a) # 2
  \/ /\ Len(a) = 2
     /\ \/ \E i \in 1..2 : getRank(a[i]) = 0 \/ a[i].hasDerivatives
        \/ getRank(a[1]) # getRank(a[2])
        \/ getRank(a[1]) = 2 /\ getRank(a[2]) = 2 /\ getShape(a[1], 1) # getShape(a[2], 0)

FailedBeforeTasks == ctor.phase = "failed" /\ ctor.tasks = <<>> /\ ~ctor.hasValue
OneTaskPerRow ==
  /\ ctor.hasValue
  /\ Len(ctor.tasks) = ctor.shape[1]
  /\ \A j \in DOMAIN ctor.tasks : ctor.tasks[j] = j - 1
AgreeOnTimeSeries(a) == \A i, k \in DOMAIN a : a[i].timeSeries = a[k].timeSeries

\* C10 as stated: construction fails before any task is added exactly for
\* the rejected argument lists, and otherwise succeeds with one task per row.
C10_Original ==
  ctor.phase # "new" =>
    IF RejectedArgs(args) THEN FailedBeforeTasks
    ELSE ctor.phase = "built" /\ OneTaskPerRow

\* C10 (amended): with no argument at all construction succeeds and adds no
\* task; with arguments it fails before any task is added exactly for the
\* rejected lists; otherwise one task per output row is added, and
\* construction then succeeds iff the arguments agree on being time series.
C10_Construction ==
  ctor.phase # "new" =>
    IF Len(args) = 0 THEN ctor.phase = "built" /\ ctor.tasks = <<>> /\ ~ctor.hasValue
    ELSE IF RejectedArgs(args) THEN FailedBeforeTasks
    ELSE /\ OneTaskPerRow
         /\ ctor.phase = "built" <=> AgreeOnTimeSeries(args)
         /\ ctor.phase \in {"built", "failed"}

\* two matrices whose inner dimensions differ were rejected
C10_Witness ==
  /\ ctor.phase = "failed" /\ ctor.tasks = <<>>
  /\ Len(args) = 2 /\ getRank(args[1]) = 2 /\ getRank(args[2]) = 2
  /\ ~args[1].hasDerivatives /\ ~args[2].hasDerivatives
  /\ getShape(args[1], 1) # getShape(args[2], 0)
  /\ getShape(args[1], 1) = getShape(args[2], 1)

\* C11: construction fails whenever the arguments disagree on being time
\* series; when it succeeds with arguments, they agree and the output
\* value is a time series iff the arguments are.
C11_TimeSeries ==
  ctor.phase # "new" =>
    /\ ~AgreeOnTimeSeries(args) => ctor.phase = "failed"
    /\ (ctor.phase = "built" /\ Len(args) > 0) =>
         /\ AgreeOnTimeSeries(args)
         /\ ctor.hasValue
         /\ ctor.timeSeries = args[1].timeSeries

\* two arguments that pass every other check and disagree were rejected
\* by the time-series check, the second one being the time series
C11_Witness ==
  /\ ctor.phase = "failed"
  /\ ctor.error = "all arguments should either be time series or not time series"
  /\ Len(args) = 2 /\ ~args[1].timeSeries /\ args[2].timeSeries

\* C15: every accessor called with a value index >= numberOfValues or a
\* derivative index >= numberOfDerivatives trips its debug assertion.
C15_BoundsAsserted ==
  (/\ op.name \in ValueAccessors \cup DerivativeAccessors
   /\ \/ op.v >= NVals
      \/ op.name \in DerivativeAccessors /\ op.j >= NDer)
    => op.asserted

\* ---------------------------------------------------------------------
\* Properties of the task loop (checked under SpecRow)
\* ---------------------------------------------------------------------

\* setupForTask has run for the current row and the task is still going
InRow == pc \in {"loop", "rowdone"}

\* C5: in every state reached after setupForTask has run,
\* getSplitIndex() <= getNumberOfIndices().
C5_SplitWithinIndices ==
  InRow => getSplitIndex(myvals) <= getNumberOfIndices(myvals)

\* the element task of a MatrixProductBase component with derivatives
\* requested went through the general path and completed
ElementDone ==
  /\ act.kind = "MPB" /\ ~doNotCalculateDerivatives(act)
  /\ last.computed /\ ~last.after.fault

\* the entries the stash of the output gained in the last element task
StashGain ==
  [p \in 1..(last.after.nmatrix_indices - last.before.nmatrix_indices) |->
     last.after.matrix_indices[last.before.nmatrix_indices + p - 1]]

\* what was in the stash before the last element task is still there
StashKept ==
  /\ last.after.nmatrix_indices >= last.before.nmatrix_indices
  /\ \A q \in 0..last.before.nmatrix_indices-1 :
       last.after.matrix_indices[q] = last.before.matrix_indices[q]

\* the stash entries of the argument elements and of the column atom
ArgEntries ==
  IF getNumberOfArguments(act) = 0 THEN <<>>
  ELSE LET nargs == IF getRank(act.args[1]) = 2 THEN getShape(act.args[1], 1) ELSE 1
           sss == IF getRank(act.args[2]) = 2 THEN getShape(act.args[2], 1) ELSE 1
       IN [i \in 1..nargs |->
             getSize(act.args[1]) + (i - 1)*sss + ColumnOf(act, last.index2)]
AtomEntries ==
  IF getNumberOfAtoms(act) = 0 THEN <<>>
  ELSE Run(numberOfArgDerivatives(act) + 3*last.index2, 3)

IndicesBetween(from, to) ==
  [p \in 1..(to - from) |-> getIndices(myvals)[from + p - 1]]

\* the candidate columns of the current row, in the order of setupForTask
CandidateColumns ==
  IF act.kind = "MPB"
  THEN SortedSeq({i \in 0..act.shape[2]-1 : ~(act.skip_ieqj /\ i = current)})
  ELSE IF getNumberOfMasks(act) > 0 THEN act.mask[current + 1]
  ELSE SortedSeq({i \in 0..act.shape[2]-1 : ~(act.diagzero /\ i = current)})

\* what setupForTask adds to a column to make its entry
ColumnOffset ==
  IF act.kind = "MPB" THEN getFullNumberOfTasks(act)
  ELSE IF getNumberOfMasks(act) = 0 /\ act.diagzero THEN getShape(act.args[2], 0)
  ELSE getShape(act.args[1], 0)

C4_DiagonalSkip ==
  (/\ pc = "rowdone"
   /\ \/ act.kind = "MPB" /\ act.skip_ieqj
      \/ act.kind = "OP" /\ act.diagzero) =>
    \A col \in DOMAIN out :
      IF col = current
      THEN evals[col] = 0 /\ jac[col] = <<>>
           /\ out[col] = IF act.kind = "OP" THEN 0 ELSE 1
      ELSE (getNumberOfMasks(act) > 0
              => \E p \in DOMAIN act.mask[current + 1] : act.mask[current + 1][p] = col)
             => evals[col] = 1

\* the forces apply() should have added: for every degree of freedom,
\* the sum over the forced elements of force times derivative, at the
\* active index of that degree of freedom
SumOver(entries, idx) ==
  IF \E p \in DOMAIN entries : entries[p][1] = idx
  THEN entries[CHOOSE p \in DOMAIN entries : entries[p][1] = idx][2]
  ELSE 0

RECURSIVE ExpectedFrom(_, _)
ExpectedFrom(idx, col) ==
  IF col \notin DOMAIN frc.value THEN 0
  ELSE frc.value[col] * SumOver(jac[col], idx) + ExpectedFrom(idx, col + 1)

\* C2: after apply() the force on every argument element, atom component
\* and virial slot is the sum of F x dy/dx_i over the forced elements y
\* that have that degree of freedom in their active set, and zero for the
\* degrees of freedom in no active set.
C2_Adjoint ==
  (frc.applied /\ ~doNotCalculateDerivatives(act)) =>
    LET numargs == numberOfArgDerivatives(act) IN
    /\ \A q \in DOMAIN frc.arguments : frc.arguments[q] = ExpectedFrom(q, 0)
    /\ \A q \in DOMAIN frc.atoms : frc.atoms[q] = ExpectedFrom(numargs + q, 0)
    /\ getNumberOfAtoms(act) > 0 =>
         \A q \in DOMAIN frc.virial :
           frc.virial[q] = ExpectedFrom(numargs + 3*getNumberOfAtoms(act) + q, 0)

\* an element of a component over two vectors was evaluated with
\* derivatives and produced a value
VectorElementDone ==
  /\ act.kind \in {"MPB", "OP"} /\ getNumberOfArguments(act) > 0
  /\ getRank(act.args[1]) = 1 /\ getRank(act.args[2]) = 1
  /\ ~doNotCalculateDerivatives(act)
  /\ last.computed /\ last.ret /\ ~last.after.fault

\* the derivative indices of element r of the first vector and of element
\* c of the second one
FirstVectorIndex == last.row
SecondVectorIndex == getSize(act.args[1]) + ColumnOf(act, last.index2)

\* C14 as stated: every evaluated element (of a component that takes only
\* the two vectors) has exactly two registered
\* derivative entries, for element r of the first vector and for element
\* c of the second vector, and no others.
C14_Original ==
  (VectorElementDone /\ getNumberOfAtoms(act) = 0) =>
    ActiveSeq(last.after, 0) = <<FirstVectorIndex, SecondVectorIndex>>

\* C14: with derivatives requested, an element that produced a value has
\* registered: for OuterProduct with the default FUNC and for a
\* MatrixProductBase without atoms exactly the two entries of element r of
\* the first vector and element c of the second (offset by the size of the
\* first); for OuterProduct with FUNC=min or max exactly one entry, that of
\* the vector element that was selected, with derivative 1; for an
\* atomistic MatrixProductBase the two argument entries first and then
\* only atom and virial indices.
C14_VectorDerivatives ==
  VectorElementDone =>
    LET active == ActiveSeq(last.after, 0) IN
    IF act.kind = "OP" /\ act.func \in {"min", "max"}
    THEN /\ active \in {<<FirstVectorIndex>>, <<SecondVectorIndex>>}
         /\ getDerivative(last.after, 0, active[1]) = 1
    ELSE /\ Len(active) >= 2
         /\ active[1] = FirstVectorIndex /\ active[2] = SecondVectorIndex
         /\ getDerivative(last.after, 0, active[1]) # 0
         /\ getDerivative(last.after, 0, active[2]) # 0
         /\ \A p \in 3..Len(active) :
              /\ getNumberOfAtoms(act) > 0
              /\ active[p] >= numberOfArgDerivatives(act)

\* element (1,0) of the product of two vectors of length 2 was evaluated
C14_Witness ==
  /\ VectorElementDone /\ act.kind = "OP" /\ act.func = "product"
  /\ getSize(act.args[1]) = 2 /\ last.row = 1 /\ ColumnOf(act, last.index2) = 0
  /\ ActiveSeq(last.after, 0) = <<1, 2>>

\* ---------------------------------------------------------------------
\* Properties of apply() (checked under SpecApply)
\* ---------------------------------------------------------------------

\* C12: with the do-not-calculate-derivatives flag set, apply() leaves the
\* atom forces, argument forces, virial and forcesToApply of a
\* MatrixProductBase, and the argument forces of a TransposeMatrix, as they
\* were, whatever forces were deposited on the output.
C12_ApplyNoDerivatives ==
  [][/\ (act.kind = "MPB" /\ doNotCalculateDerivatives(act) /\ ~frc.applied /\ frc'.applied)
        => frc' = [frc EXCEPT !.applied = TRUE]
     /\ (tm.kind = "T" /\ tm.noderiv /\ ~tm.applied /\ tm'.applied)
        => tm' = [tm EXCEPT !.applied = TRUE]]_vars

\* apply() has run on a component without derivatives that had a force on
\* an output element
C12_Witness ==
  /\ act.kind = "MPB" /\ doNotCalculateDerivatives(act) /\ frc.applied
  /\ \E col \in DOMAIN frc.value : frc.value[col] > 0
  /\ \A q \in DOMAIN frc.forcesToApply : frc.forcesToApply[q] = 1

\* C13: when no force was deposited on any output value, apply() adds
\* nothing to any atom force, argument force or virial slot.
C13_ApplyNoForce ==
  [][/\ (/\ act.kind = "MPB" /\ ~frc.applied /\ frc'.applied
         /\ \A col \in DOMAIN frc.value : frc.value[col] = 0)
        => /\ frc'.atoms = frc.atoms /\ frc'.arguments = frc.arguments
           /\ frc'.virial = frc.virial
     /\ (tm.kind = "T" /\ ~tm.hasForce /\ ~tm.applied /\ tm'.applied)
        => tm'.argforce = tm.argforce]_vars

\* apply() has run, with derivatives, on an atomistic component that has
\* stored derivatives and no force on its output
C13_Witness ==
  /\ act.kind = "MPB" /\ ~doNotCalculateDerivatives(act) /\ frc.applied
  /\ getNumberOfAtoms(act) > 0
  /\ \A col \in DOMAIN frc.value : frc.value[col] = 0
  /\ \E col \in DOMAIN jac : jac[col] # <<>>
  /\ \A q \in DOMAIN frc.forcesToApply : frc.forcesToApply[q] = 0

\* ---------------------------------------------------------------------
\* Properties of runAllTasks with several threads (checked under SpecPar)
\* ---------------------------------------------------------------------

\* the row as a task that runs alone on a MultiValue fresh from resize
\* leaves it
AloneResult(row) ==
  Only({ RowResult(r.mv, r.out, r.jac) :
         r \in {performTask(par.act, par.pattern, row,
                            resize(1, getNumberOfDerivatives(par.act)))} })

\* C16: whatever the order and interleaving of the row tasks, every merged
\* row (values, stashed indices, derivatives) is what the row task leaves
\* when it runs alone on a fresh MultiValue.
C16_OrderIndependent ==
  par.kind = "tasks" =>
    \A row \in DOMAIN par.merged :
      par.merged[row] # NoResult => par.merged[row] = AloneResult(row)

\* all rows of a product of a 2x2 matrix with its transpose are merged,
\* the first row by a thread that ran the second row before
C16_Witness ==
  /\ par.kind = "tasks" /\ par.todo = {} /\ ~par.aborted
  /\ par.act.kind = "MPB" /\ par.act.skip_ieqj /\ getFullNumberOfTasks(par.act) = 2
  /\ \A row \in DOMAIN par.merged : par.merged[row] # NoResult
  /\ \E t \in 1..NThreads : par.myvals[t].indices = (0 :> 0 @@ 1 :> 3)
  /\ \A t \in 1..NThreads : ~par.thread[t].busy

\* ---------------------------------------------------------------------
\* Properties of calculate/update/runFinalJobs (checked under SpecSch)
\* ---------------------------------------------------------------------

BlockOf(t) ==
  IF avg.clearstride = 0 THEN 0 ELSE (t + avg.clearstride - 1) \div avg.clearstride

RECURSIVE SumOfBlock(_, _)
\* the sum of the accumulated samples q.. whose step is in block b
SumOfBlock(q, b) ==
  IF q > Len(avg.samples) THEN 0
  ELSE (IF BlockOf(avg.samples[q][1]) = b THEN avg.samples[q][2] ELSE 0)
       + SumOfBlock(q + 1, b)

RECURSIVE CountOfBlock(_, _)
CountOfBlock(q, b) ==
  IF q > Len(avg.samples) THEN 0
  ELSE (IF BlockOf(avg.samples[q][1]) = b THEN 1 ELSE 0) + CountOfBlock(q + 1, b)

LastSample == avg.samples[Len(avg.samples)]

\* C18: a component exists only when CLEAR is 0 or a multiple of STRIDE;
\* an accumulating update that follows an accumulating update at a step
\* divisible by CLEAR > 0 resets before it adds, so that every element
\* holds the sum of the samples of the current block only (and the
\* normalization their number when it is enabled); with CLEAR = 0 no
\* update resets.
C18_BlockAverage ==
  /\ avg.kind = "error" <=> (avg # NoAvg /\ avg.clearstride > 0
                                /\ avg.clearstride % avg.stride # 0)
  /\ (avg.kind = "avg" /\ avg.accumulated) =>
       /\ (Len(avg.samples) >= 2 /\ avg.clearstride > 0
            /\ avg.samples[Len(avg.samples) - 1][1] % avg.clearstride = 0)
           => avg.didReset
       /\ avg.clearstride = 0 => (~avg.didReset /\ avg.resets = 0)
       /\ \A i \in DOMAIN avg.out.data :
            avg.out.data[i] = SumOfBlock(1, BlockOf(LastSample[1]))
       /\ avg.clearnorm => avg.out.norm = CountOfBlock(1, BlockOf(LastSample[1]))

\* the second block of a block average with CLEAR = 2 has just received its
\* first sample: the output holds that sample alone
C18_Witness ==
  /\ avg.kind = "avg" /\ avg.clearstride = 2 /\ avg.clearnorm
  /\ avg.accumulated /\ avg.didReset /\ Len(avg.samples) >= 2
  /\ avg.out.data[0] = LastSample[2] /\ avg.out.norm = 1
  /\ Cardinality(DOMAIN avg.out.data) = 2

\* ---------------------------------------------------------------------
\* Properties of ActionVolume (checked under SpecVol)
\* ---------------------------------------------------------------------

\* the step of the rebuild before the last one (0, the step lastUpdate
\* starts from, when there was none)
PreviousRebuild ==
  IF Len(vol.rebuilds) >= 2 THEN vol.rebuilds[Len(vol.rebuilds) - 1] ELSE 0

\* C19: prepare() unlocks the contributors and reactivates the tasks of
\* the base multicolvar only on a step at least NL_STRIDE after the last
\* rebuild step; deactivating a task of the volume is an error.
C19_RebuildEpochs ==
  vol.kind = "vol" =>
    /\ (vol.called = "prepare" /\ vol.rebuilt) =>
         vol.at - PreviousRebuild >= vol.updateFreq
    /\ (vol.called = "prepare" /\ ~vol.rebuilt /\ vol.error = "") =>
         /\ ~vol.contributorsAreUnlocked
         /\ vol.mycolv.inactive = vol.before.inactive
    /\ vol.called = "deactivate_task" => vol.error = "This should never be called"

\* ---------------------------------------------------------------------
\* Properties of the end of a row task
\* ---------------------------------------------------------------------

\* the step that follows the element loop of a row
RowFinalized == pc = "loop" /\ pc' = "rowdone"

\* the two index stashes of a MultiValue
Stashes(mv) ==
  <<mv.matrix_row_nderivatives, mv.matrix_row_derivative_indices,
    mv.nmatrix_indices, mv.matrix_indices>>

\* what updateCentralMatrixIndex is to append for the row ind: the nargs
\* argument indices of the row and, for an atomistic row, the three
\* position components of the anchor and the nine virial components
CentralEntries(c, ind) ==
  LET nargs == IF getNumberOfArguments(c) = 0 THEN 0
               ELSE IF getRank(c.args[1]) = 2 THEN getShape(c.args[1], 1) ELSE 1
      numargs == numberOfArgDerivatives(c)
  IN Run(nargs*ind, nargs)
       \o (IF getNumberOfAtoms(c) > 0
           THEN Run(numargs + 3*ind, 3) \o Run(numargs + 3*getNumberOfAtoms(c), 9)
           ELSE <<>>)

\* C21: in every step that finalizes a row: with derivatives requested,
\* OuterProduct::runEndOfRowJobs increases the count of the matrix-row
\* derivative stash by exactly 1 and the new entry is the row index ival,
\* and MatrixProductBase::updateCentralMatrixIndex appends to the matrix
\* indices the nargs argument indices of the row and, for atomistic rows,
\* the anchor's 3 position components and the 9 virial components; what
\* was stashed before stays; with derivatives disabled the stash is
\* unchanged.
C21_RowFinalization ==
  [][RowFinalized =>
       IF doNotCalculateDerivatives(act) THEN Stashes(myvals') = Stashes(myvals)
       ELSE IF act.kind = "OP"
       THEN LET n == getNumberOfMatrixRowDerivatives(myvals) IN
            /\ getNumberOfMatrixRowDerivatives(myvals') = n + 1
            /\ myvals'.matrix_row_derivative_indices[n] = current
            /\ \A q \in 0..n-1 : myvals'.matrix_row_derivative_indices[q]
                                   = myvals.matrix_row_derivative_indices[q]
            /\ ~myvals'.fault
       ELSE LET n == getNumberOfMatrixIndices(myvals)
                e == CentralEntries(act, current)
            IN /\ getNumberOfMatrixIndices(myvals') = n + Len(e)
               /\ \A p \in DOMAIN e : myvals'.matrix_indices[n + p - 1] = e[p]
               /\ \A q \in 0..n-1 : myvals'.matrix_indices[q] = myvals.matrix_indices[q]
               /\ ~myvals'.fault]_vars

\* the second row of an atomistic product with arguments was finalized
\* after an element of it was evaluated
C21_Witness ==
  /\ pc = "rowdone" /\ ~doNotCalculateDerivatives(act) /\ last.row = current
  /\ last.ret /\ current = 1
  /\ act.kind = "MPB" /\ getNumberOfAtoms(act) > 0 /\ getNumberOfArguments(act) > 0
  /\ getNumberOfMatrixIndices(myvals) >= Len(CentralEntries(act, current)) + 3

\* ---------------------------------------------------------------------
\* Properties of a MatrixProductBase in a chain (checked under SpecChain)
\* ---------------------------------------------------------------------

\* the value, the derivatives and the active list held in a MultiValue
Held(mv) == <<mv.values, mv.derivatives, mv.hasderiv, mv.nactive, mv.active_list>>

\* the row-level performTask of a component that is not an adjacency
\* matrix has run in the chain
ChainRowDone == last.kind = "row" /\ ~act.isAdjacencyMatrix /\ act.inChain

\* C22: for every row-level performTask of a MatrixProductBase that is not
\* an adjacency matrix and is in a chain: no value, derivative or active
\* entry of the MultiValue changes; when derivatives are requested and the
\* MultiValue is in a vector call the only change is that the entries of
\* updateCentralMatrixIndex for the row are appended to the matrix
\* indices; otherwise nothing changes.
C22_ChainRowTask ==
  ChainRowDone =>
    /\ Held(last.after) = Held(last.before)
    /\ IF ~doNotCalculateDerivatives(act) /\ inVectorCall(last.before)
       THEN LET n == getNumberOfMatrixIndices(last.before)
                e == CentralEntries(act, last.row)
            IN /\ getNumberOfMatrixIndices(last.after) = n + Len(e)
               /\ \A p \in DOMAIN e : last.after.matrix_indices[n + p - 1] = e[p]
               /\ \A q \in 0..n-1 :
                    last.after.matrix_indices[q] = last.before.matrix_indices[q]
               /\ [last.after EXCEPT !.matrix_indices = last.before.matrix_indices,
                                     !.nmatrix_indices = n] = last.before
       ELSE last.after = last.before

\* the row task of a product in a chain appended the central entries in a
\* vector call, after an element of the row was computed in the stream
C22_Witness ==
  /\ ChainRowDone /\ ~doNotCalculateDerivatives(act) /\ inVectorCall(last.before)
  /\ getNumberOfArguments(act) > 0
  /\ getNumberOfMatrixIndices(last.before) > 0
  /\ getNumberOfMatrixIndices(last.after) > getNumberOfMatrixIndices(last.before)

\* C23: for every call performTask(controller, i, j) of an adjacency
\* matrix with a controller that is not its own label, the call returns
\* false and leaves the MultiValue as it was.
C23_ForeignController ==
  (last.kind = "element" /\ act.isAdjacencyMatrix /\ last.controller # act.label) =>
    /\ ~last.ret
    /\ last.after = last.before

\* an adjacency matrix was called by the action it follows, in its second row
C23_Witness ==
  /\ last.kind = "element" /\ act.isAdjacencyMatrix /\ last.controller # act.label
  /\ last.row = 1 /\ ~doNotCalculateDerivatives(act)

\* ---------------------------------------------------------------------
\* The element task and epsilon (checked under SpecRow)
\* ---------------------------------------------------------------------

\* the element loop of a MatrixProductBase is about to run an element task
ElementPending ==
  /\ act.kind = "MPB" /\ pc = "loop" /\ li < getSplitIndex(myvals)
  /\ li \in DOMAIN getIndices(myvals)

\* the active indices of value 0 that are indices of argument elements
ActiveArguments(c, mv) ==
  {q \in 1..getNumberActive(mv, 0) : getActiveIndex(mv, 0, q - 1) < numberOfArgDerivatives(c)}

\* C24: for every element task of a MatrixProductBase that the loop can
\* run next and for every result of computeVectorProduct: if the value is
\* below epsilon the task writes no value, leaves no argument index
\* registered and returns false, with derivatives requested or not;
\* otherwise it writes the value and returns true.
C24_EpsilonSkip ==
  [](ElementPending =>
    \A inp \in Inputs(act) :
      \A r \in {runTask(act, act.label, getTaskIndex(myvals), current,
                       getIndices(myvals)[li], myvals, inp)} :
         ~r.mv.fault =>
           IF inp.val = 0
           THEN /\ ~r.ret
                /\ r.mv.values = myvals.values
                /\ ActiveArguments(act, r.mv) = {}
           ELSE /\ r.ret
                /\ get(r.mv, 0) = inp.val)

\* an element below epsilon was skipped with derivatives disabled, after
\* an element of the same row was written
C24_Witness ==
  /\ act.kind = "MPB" /\ doNotCalculateDerivatives(act)
  /\ getNumberOfArguments(act) > 0
  /\ last.computed /\ ~last.ret /\ ~last.after.fault
  /\ last.row = current /\ \E col \in DOMAIN out : out[col] # 0

\* ---------------------------------------------------------------------
\* The layout of forcesToApply (checked under SpecRow)
\* ---------------------------------------------------------------------

\* C25: after apply() of a MatrixProductBase with both atoms and arguments
\* on which a force was deposited, what was accumulated in forcesToApply
\* at the index of an argument element (e in [0, numargs)) is the force on
\* that argument element, what was accumulated at numargs + 3a + k is the
\* force on component k of atom a, and what was accumulated at
\* numargs + 3*natoms + j is the virial component j.
C25_ForceLayout ==
  (/\ frc.applied /\ act.kind = "MPB" /\ ~doNotCalculateDerivatives(act)
   /\ getNumberOfAtoms(act) > 0 /\ getNumberOfArguments(act) > 0
   /\ \E col \in DOMAIN frc.value : frc.value[col] # 0) =>
    LET numargs == numberOfArgDerivatives(act) IN
    /\ \A q \in DOMAIN frc.arguments : frc.arguments[q] = frc.forcesToApply[q]
    /\ \A q \in DOMAIN frc.atoms : frc.atoms[q] = frc.forcesToApply[numargs + q]
    /\ \A q \in DOMAIN frc.virial :
         frc.virial[q] = frc.forcesToApply[numargs + 3*getNumberOfAtoms(act) + q]

\* ---------------------------------------------------------------------
\* Products of two vectors of different lengths (checked under SpecRow)
\* ---------------------------------------------------------------------

\* C26: for every element task the loop of a MatrixProductBase over two
\* vectors of lengths n (first) and m (second) can run next: the element
\* read from the first vector has an index below n, the element read from
\* the second vector an index below m, the two derivative indices are
\* below n + m, and the task completes without an access outside the
\* arguments or the MultiValue.
C26_VectorBounds ==
  (/\ ElementPending /\ getNumberOfArguments(act) > 0
   /\ getRank(act.args[1]) = 1 /\ getRank(act.args[2]) = 1) =>
    LET n == getShape(act.args[1], 0)
        m == getShape(act.args[2], 0)
        index1 == current
        ind2 == ColumnOf(act, getIndices(myvals)[li])
    IN /\ index1 < n
       /\ ind2 < m
       /\ index1 < n + m /\ getSize(act.args[1]) + ind2 < n + m
       /\ \A inp \in Inputs(act) :
            ~runTask(act, act.label, getTaskIndex(myvals), current,
                     getIndices(myvals)[li], myvals, inp).mv.fault

\* the columns performTask decodes from the entries setupForTask wrote for
\* the element loop
DecodedColumns ==
  {ColumnOf(act, getIndices(myvals)[p]) :
     p \in {q \in 1..getSplitIndex(myvals)-1 : q \in DOMAIN getIndices(myvals)}}

\* C27: whenever OuterProduct::setupForTask has run for row i of the outer
\* product of vectors of lengths n and m, it completed without a write
\* outside the indices array and the columns performTask decodes from the
\* entries of the element loop are exactly the columns of row i of the
\* mask when there is a mask, {0..m-1} without i when
\* ELEMENTS_ON_DIAGONAL_ARE_ZERO is set, and {0..m-1} otherwise.
C27_OuterColumns ==
  (act.kind = "OP" /\ pc \in {"loop", "fault"} /\ li = 1) =>
    /\ ~myvals.fault
    /\ \A q \in 1..getSplitIndex(myvals)-1 : q \in DOMAIN getIndices(myvals)
    /\ DecodedColumns =
         IF getNumberOfMasks(act) > 0
         THEN {act.mask[current + 1][p] : p \in DOMAIN act.mask[current + 1]}
         ELSE {col \in 0..getShape(act.args[2], 0)-1 : ~(act.diagzero /\ col = current)}

\* ---------------------------------------------------------------------
\* Properties of MultiColvarTemplate::performTask (checked under SpecMCV)
\* ---------------------------------------------------------------------

\* a task of the multicolvar has run
TaskDone == act.kind = "MCV" /\ last.kind = "task" /\ ~last.after.fault

\* the blocks of the multicolvar and the atom positions of the last task
Blocks == DOMAIN act.ablocks
TaskAtom(b) == act.ablocks[b][last.row + 1]

\* the serial of the atom block b of the last task stands for
TaskSerial(b) == act.all_atoms[TaskAtom(b)]

\* the virial indices
VirialIndices == {3*getNumberOfAtoms(act) + q : q \in 0..8}

RECURSIVE SumDeriv(_, _)
\* the sum of the derivatives CV::calculateCV returned for the blocks of B
SumDeriv(B, cv) ==
  IF B = {} THEN 0
  ELSE LET b == CHOOSE x \in B : TRUE IN cv.deriv[b] + SumDeriv(B \ {b}, cv)

\* with derivatives disabled only the values are written
ValuesOnly ==
  /\ \A j \in 0..act.ncomponents-1 : get(last.after, j) = CVOutput(act, last.index2).value
  /\ [last.after EXCEPT !.values = last.before.values] = last.before

\* C28 as stated: after performTask with derivatives requested the active
\* list of every component holds the three position indices of every
\* distinct atom of the task once and the nine virial indices once,
\* 3*distinct+9 entries, an atom that is in more than one block of the
\* task having one slot that holds the sum of the contributions; with
\* derivatives disabled only the values are written.
C28_Original ==
  TaskDone =>
    IF doNotCalculateDerivatives(act) THEN ValuesOnly
    ELSE LET distinct == {TaskSerial(b) : b \in Blocks} IN
         \A j \in 0..act.ncomponents-1 :
           /\ NoDuplicates(ActiveSeq(last.after, j))
           /\ getNumberActive(last.after, j) = 3*Cardinality(distinct) + 9
           /\ \A b \in Blocks, d \in 0..2 :
                getDerivative(last.after, j, 3*TaskAtom(b) + d)
                  = SumDeriv({x \in Blocks : TaskSerial(x) = TaskSerial(b)},
                             CVOutput(act, last.index2))

\* C28: after performTask with derivatives requested the active list of
\* every component holds, once each, the three indices 3p+{0,1,2} of the
\* position p of every block of the task and the nine virial indices,
\* 3*blocks+9 entries; the positions of the blocks of a task are pairwise
\* different, also when two blocks name the same atom, and every slot holds
\* the contribution of its own block only; with derivatives disabled only
\* the values are written.
C28_ActiveList ==
  TaskDone =>
    IF doNotCalculateDerivatives(act) THEN ValuesOnly
    ELSE /\ \A b1, b2 \in Blocks : b1 # b2 => TaskAtom(b1) # TaskAtom(b2)
         /\ \A j \in 0..act.ncomponents-1 :
              /\ NoDuplicates(ActiveSeq(last.after, j))
              /\ {ActiveSeq(last.after, j)[p] : p \in DOMAIN ActiveSeq(last.after, j)}
                   = {3*TaskAtom(b) + d : b \in Blocks, d \in 0..2} \cup VirialIndices
              /\ getNumberActive(last.after, j) = 3*Cardinality(Blocks) + 9
              /\ get(last.after, j) = CVOutput(act, last.index2).value
              /\ \A b \in Blocks, d \in 0..2 :
                   getDerivative(last.after, j, 3*TaskAtom(b) + d)
                     = CVOutput(act, last.index2).deriv[b]
              /\ \A q \in VirialIndices :
                   getDerivative(last.after, j, q) = CVOutput(act, last.index2).virial

\* the second task of a multicolvar ran with derivatives, two of its
\* blocks naming the same atom
C28_Witness ==
  /\ TaskDone /\ ~doNotCalculateDerivatives(act) /\ last.row = 1
  /\ \E b1, b2 \in Blocks : b1 # b2 /\ TaskSerial(b1) = TaskSerial(b2)
  /\ getNumberActive(last.after, 0) = 3*Cardinality(Blocks) + 9

\* ---------------------------------------------------------------------
\* Properties of TransposeMatrix::calculate (checked under SpecTr)
\* ---------------------------------------------------------------------

\* C29: after calculate() on a matrix argument with more than one row, on
\* every step, the output element (j,i) equals the input element (i,j) for
\* every pair (i,j), and the force getForceOnMatrixElement(i,j) reports for
\* the input element (i,j) is the force on the output element (j,i).
C29_TransposeFresh ==
  (/\ tm.kind = "steps" /\ tm.calculated
   /\ getRank(tm.t.arg) = 2 /\ getShape(tm.t.arg, 0) > 1) =>
    \A i \in 0..getShape(tm.t.arg, 0)-1, j \in 0..getShape(tm.t.arg, 1)-1 :
      /\ tm.output[j*tm.t.shape[2] + i] = tm.input[i*getShape(tm.t.arg, 1) + j]
      /\ getForceOnMatrixElement(tm.t, i, j) = tm.t.force[j*tm.t.shape[2] + i]

\* ---------------------------------------------------------------------
\* The bounds of the index stashes during a row task (checked under
\* SpecRow)
\* ---------------------------------------------------------------------

RECURSIVE SumEvals(_)
\* the number of elements evaluated in the row, from column col on
SumEvals(col) == IF col \notin DOMAIN evals THEN 0 ELSE evals[col] + SumEvals(col + 1)

\* the capacity of the two stash arrays
RowStashCapacity == Cardinality(DOMAIN myvals.matrix_row_derivative_indices)

MatrixStashCapacity == Cardinality(DOMAIN myvals.matrix_indices)

\* the entries the rest of the row can still stash: one per element of
\* an OuterProduct row and one at its end; for a MatrixProductBase nargs
\* per element and the entries of updateCentralMatrixIndex with the
\* three components of every atom of the third block
StillToStash ==
  LET rest == IF li < getSplitIndex(myvals) THEN getSplitIndex(myvals) - li ELSE 0 IN
  IF act.kind = "OP" THEN rest + 1
  ELSE LET nargs == IF getNumberOfArguments(act) = 0 THEN 0
                    ELSE IF getRank(act.args[1]) = 2 THEN getShape(act.args[1], 1) ELSE 1
       IN rest * nargs + Len(CentralEntries(act, current))
            + (IF getNumberOfAtoms(act) > 0
               THEN 3 * (getNumberOfIndices(myvals) - getSplitIndex(myvals)) ELSE 0)

\* the counts of the stashes are within the arrays, are zero when a row
\* starts, leave room for what the row still stashes and, at the end of
\* an OuterProduct row, count the evaluated elements and the row itself
StashWithinBounds ==
  /\ getNumberOfMatrixRowDerivatives(myvals) <= RowStashCapacity
  /\ getNumberOfMatrixIndices(myvals) <= MatrixStashCapacity
  /\ act.kind = "MPB" => getNumberOfMatrixIndices(myvals) <= getNumberOfDerivatives(act)
  /\ (pc = "idle" \/ (pc = "loop" /\ li = 1)) =>
       /\ getNumberOfMatrixRowDerivatives(myvals) = 0
       /\ getNumberOfMatrixIndices(myvals) = 0
  /\ (pc = "loop" /\ ~doNotCalculateDerivatives(act)) =>
       IF act.kind = "OP"
       THEN getNumberOfMatrixRowDerivatives(myvals) + StillToStash <= RowStashCapacity
       ELSE getNumberOfMatrixIndices(myvals) + StillToStash <= MatrixStashCapacity
  /\ (pc = "rowdone" /\ act.kind = "OP" /\ ~doNotCalculateDerivatives(act)) =>
       getNumberOfMatrixRowDerivatives(myvals) = SumEvals(0) + 1

\* no position at or after the count that a step sets is written by it
WritesBelowCount ==
  /\ \A q \in DOMAIN myvals.matrix_row_derivative_indices :
       q >= getNumberOfMatrixRowDerivatives(myvals') =>
         myvals'.matrix_row_derivative_indices[q] = myvals.matrix_row_derivative_indices[q]
  /\ \A q \in DOMAIN myvals.matrix_indices :
       q >= getNumberOfMatrixIndices(myvals') =>
         myvals'.matrix_indices[q] = myvals.matrix_indices[q]

\* C30: during every row task the number of stashed matrix-row derivative
\* indices never exceeds the capacity of the stash array (nor, for a
\* MatrixProductBase, getNumberOfDerivatives()); with derivatives
\* requested every write of a step lands below the count the step sets,
\* the rest of the row always fits in the array, and at the end of an
\* OuterProduct row the count is the number of elements evaluated in the
\* row plus one; the count is zero when a row starts.
C30_StashBounds == []StashWithinBounds /\ [][WritesBelowCount]_vars

\* the second row of an OuterProduct with derivatives is done and its
\* stash holds two evaluated elements and the row
C30_Witness ==
  /\ pc = "rowdone" /\ act.kind = "OP" /\ ~doNotCalculateDerivatives(act)
  /\ current = 1 /\ SumEvals(0) = 2
  /\ getNumberOfMatrixRowDerivatives(myvals) = 3

====
